---- MODULE Spec2Model ----
(***************************************************************************)
(* Explicit-free-list allocator of src/mm.c (malloc, free, realloc,        *)
(* calloc, mm_init) over a byte-addressed heap grown by mem_sbrk.          *)
(*                                                                         *)
(* The heap is a sparse map from byte address to byte value; a byte that   *)
(* was never written is absent from the map.  A word is 8 bytes, little    *)
(* endian.  size_t and word_t are scaled from 64 to SizeBits bits: every   *)
(* size and address computation wraps modulo 2^SizeBits, and the bytes of  *)
(* a word above that width are written as zero and ignored when read.      *)
(***************************************************************************)
EXTENDS Integers, Sequences, FiniteSets, TLC

VARIABLES mem, brk, mem_max_addr, free_root, prologue, counter_global,
          live, last, status, nops

\* the multithreaded proxy of src/proxy_simulator.c
VARIABLES mutex, holder, cache, tpc, turi, cache_entry

proxyvars == <<mutex, holder, cache, tpc, turi, cache_entry>>

\* the shell of src/shell_simulator.c: the parent's place and locals, its
\* signal mask and pending signals, the running handler, the children and
\* the job list
VARIABLES sh_pc, parse_result, processId, prev_mask, blocked, pending,
          hnd, h_pid, proc, jobs, waitpidNeeded

shellvars == <<sh_pc, parse_result, processId, prev_mask, blocked, pending,
               hnd, h_pid, proc, jobs, waitpidNeeded>>

\* the cache simulator of src/cache_simulator.c
VARIABLES myCache, hits, misses, evictions, dirtyBlocksInCache,
          dirtyBlocksEvicted, operationCounter

simvars == <<myCache, hits, misses, evictions, dirtyBlocksInCache,
             dirtyBlocksEvicted, operationCounter>>

allocvars == <<mem, brk, mem_max_addr, free_root, prologue, counter_global,
               live, last, status, nops>>

vars == <<allocvars, proxyvars, shellvars, simvars>>

(***************************** bounds **************************************)
\* width of size_t / word_t in bits
SizeBits == 16
\* the largest heap the environment may grant, in chunks after the root words
MaxChunks == 2
\* most calls in one run
MaxOps == 4
\* most payload bytes a caller writes into one allocation
MaxWrite == 32
\* calls in one run of the scripted scenarios
ScenOps == 5
\* request threads of the proxy that are alive at one time
MaxThreads == 2
\* children the shell forks in one run
MaxChildren == 2
\* width of unsigned long and long in the cache simulator, scaled from 64
AddrBits == 10
\* width of int, the type of the tag field of a cache line, scaled from 32
TagBits == 4
\* accesses in one trace of the cache simulator
MaxAccesses == 4

(************************* program constants *******************************)
ALIGNMENT == 16
wsize == 8
dsize == 2 * wsize
min_block_size == 2 * dsize
chunksize == 2^12
alloc_mask == 1
NULL == 0

SizeMod == 2^SizeBits
SIZE_MAX == SizeMod - 1

Add(a, b) == (a + b) % SizeMod
Sub(a, b) == (a - b + SizeMod) % SizeMod

(****************************** memlib *************************************)
\* first byte of the heap region; 16-byte aligned and not NULL
mem_heap_lo == 4 * ALIGNMENT
\* last byte of the heap region
mem_heap_hi(h) == h.brk - 1
\* the failure value of mem_sbrk, (void *)-1
SbrkFail == SIZE_MAX

\* mem_sbrk: extends the heap by incr bytes and returns the old top; fails
\* for a negative (as signed) increment or when the region is exhausted
mem_sbrk(h, incr) ==
    IF incr >= SizeMod \div 2 \/ h.brk + incr > h.max
    THEN [h |-> h, v |-> SbrkFail]
    ELSE [h |-> [h EXCEPT !.brk = @ + incr], v |-> h.brk]

(************************** memory accesses ********************************)
WordIn(h, a) == a >= mem_heap_lo /\ a + wsize <= h.brk
WordInit(h, a) == \A i \in 0..(wsize - 1) : (a + i) \in DOMAIN h.mem

Fault(h, kind) == IF h.fault = "none" THEN [h EXCEPT !.fault = kind] ELSE h

\* a dereference of the word at a: outside the heap, or never written, is
\* undefined behaviour and recorded as a fault of the running call
ck(h, a) ==
    IF ~WordIn(h, a) THEN Fault(h, "oob")
    ELSE IF ~WordInit(h, a) THEN Fault(h, "uninit")
    ELSE h

\* the value of the word at a (0 stands in after a fault)
ld(h, a) ==
    IF WordIn(h, a) /\ WordInit(h, a)
    THEN (h.mem[a] + 256 * h.mem[a + 1] + 65536 * h.mem[a + 2]) % SizeMod
    ELSE 0

WordBytes(a, v) ==
    [x \in a..(a + wsize - 1) |->
        CASE x - a = 0 -> v % 256
          [] x - a = 1 -> (v \div 256) % 256
          [] x - a = 2 -> (v \div 65536) % 256
          [] OTHER -> 0]

\* a store of the word v at a
st(h, a, v) ==
    IF ~WordIn(h, a) THEN Fault(h, "oob")
    ELSE [h EXCEPT !.mem = WordBytes(a, v) @@ @]

(*********************** low-level / math operations ***********************)
pack(size, is_allocated) ==
    IF is_allocated /\ size % 2 = 0 THEN size + alloc_mask ELSE size

\* round_up without the rounding
round_up_mut(size, n) == size

round_up(size, n) == (n * (Add(size, n - 1) \div n)) % SizeMod

max(x, y) == IF x > y THEN x ELSE y

in_heap(h, p) == p <= mem_heap_hi(h) /\ p >= mem_heap_lo

align(x) == ALIGNMENT * ((x + ALIGNMENT - 1) \div ALIGNMENT)

aligned(p) == align(p) = p

(**************************** block operations *****************************)
header_to_payload(block) == Add(block, wsize)

payload_to_header(bp) == Sub(bp, wsize)

extract_size(word) == word - (word % 16)

extract_alloc(word) == (word % 2) = 1

get_size(h, block) == extract_size(ld(h, block))

get_alloc(h, block) == extract_alloc(ld(h, block))

find_prev_footer(block) == Sub(block, wsize)

get_payload_size(h, block) == Sub(get_size(h, block), dsize)

\* field addresses of the prev_next_ptrs overlay of a block's content
PrevField(block) == Add(block, wsize)
NextField(block) == Add(block, 2 * wsize)

get_next_free(h, curr) == ld(h, NextField(curr))

get_prev_free(h, curr) == ld(h, PrevField(curr))

get_next_block(h, curr) == Add(curr, get_size(h, curr))

get_prev_block(h, curr) == Sub(curr, extract_size(ld(h, find_prev_footer(curr))))

\* write_block that writes the header and leaves the footer alone
write_block_mut(h, block, size, is_allocated) ==
    st(h, block, pack(size, is_allocated))

write_block(h, block, size, is_allocated) ==
    LET h1 == st(h, block, pack(size, is_allocated))
    IN  IF block = h.free_root THEN h1
        ELSE LET footerp == Sub(Add(header_to_payload(block), get_size(h1, block)), dsize)
             IN  st(ck(h1, block), footerp, pack(size, is_allocated))

(***************************** list operations *****************************)
\* remove_from_list that relinks forwards only: the successor keeps its old prev
remove_from_list_mut(h, target) ==
    LET h1 == ck(ck(h, PrevField(target)), NextField(target))
        tmp_prev == get_prev_free(h, target)
        tmp_next == get_next_free(h, target)
        h2 == st(h1, NextField(tmp_prev), tmp_next)
    IN  [h2 EXCEPT !.counter_global = @ - 1]

remove_from_list(h, target) ==
    LET h1 == ck(ck(h, PrevField(target)), NextField(target))
        tmp_prev == get_prev_free(h, target)
        tmp_next == get_next_free(h, target)
        h2 == st(h1, NextField(tmp_prev), tmp_next)
        h3 == st(h2, PrevField(tmp_next), tmp_prev)
    IN  [h3 EXCEPT !.counter_global = @ - 1]

\* add_to_list that links the block in after the root, at the head
add_to_list_mut(h, new) ==
    LET h0 == ck(h, NextField(h.free_root))
        old_head == get_next_free(h, h.free_root)
        h1 == st(h0, PrevField(old_head), new)
        h2 == st(h1, PrevField(new), h.free_root)
        h3 == st(h2, NextField(h.free_root), new)
        h4 == st(h3, NextField(new), old_head)
    IN  [h4 EXCEPT !.counter_global = @ + 1]

\* add_to_list that links the block in before the last entry
add_to_list_before_mut(h, new) ==
    LET h0 == ck(h, PrevField(h.free_root))
        old_tail == get_prev_free(h, h.free_root)
        before == get_prev_free(h, old_tail)
        h1 == st(h0, NextField(before), new)
        h2 == st(h1, PrevField(new), before)
        h3 == st(h2, NextField(new), old_tail)
        h4 == st(h3, PrevField(old_tail), new)
    IN  [h4 EXCEPT !.counter_global = @ + 1]

add_to_list(h, new) ==
    LET h0 == ck(h, PrevField(h.free_root))
        old_tail == get_prev_free(h, h.free_root)
        h1 == st(h0, NextField(old_tail), new)
        h2 == st(h1, NextField(new), h.free_root)
        h3 == st(h2, PrevField(h.free_root), new)
        h4 == st(h3, PrevField(new), old_tail)
    IN  [h4 EXCEPT !.counter_global = @ + 1]

(*************************** byte primitives ********************************)
ByteRange(a, n) == {x \in a..(a + n - 1) : TRUE}

RangeIn(h, a, n) == n = 0 \/ (a >= mem_heap_lo /\ a + n <= h.brk)

\* memcpy(dst, src, n): a byte never written stays indeterminate in the copy
memcpy(h, dst, src, n) ==
    IF ~RangeIn(h, dst, n) \/ ~RangeIn(h, src, n) THEN Fault(h, "oob")
    ELSE LET D == ByteRange(dst, n)
             from == {x \in DOMAIN h.mem : x >= src /\ x < src + n}
             to == {dst + (x - src) : x \in from}
         IN  [h EXCEPT !.mem = [x \in ((DOMAIN h.mem) \ D) \cup to |->
                                   IF x \in D THEN h.mem[src + (x - dst)] ELSE h.mem[x]]]

\* memset(bp, c, n)
memset(h, bp, c, n) ==
    IF ~RangeIn(h, bp, n) THEN Fault(h, "oob")
    ELSE [h EXCEPT !.mem = [x \in ByteRange(bp, n) |-> c] @@ @]

(***************************** static methods ******************************)
\* extend_heap that starts the new block a minimum block below the old top
extend_heap_back_mut(h, size0) ==
    LET size == round_up(size0, dsize)
        r == mem_sbrk(h, size)
    IN  IF r.v = SbrkFail THEN [h |-> r.h, v |-> NULL]
        ELSE [h |-> add_to_list(write_block(r.h, r.v - min_block_size, size, FALSE),
                                r.v - min_block_size),
              v |-> r.v - min_block_size]

\* extend_heap that asks mem_sbrk for one word more than the block it writes
extend_heap_word_mut(h, size0) ==
    LET size == round_up(size0, dsize)
        r == mem_sbrk(h, size + wsize)
    IN  IF r.v = SbrkFail THEN [h |-> r.h, v |-> NULL]
        ELSE [h |-> add_to_list(write_block(r.h, r.v, size, FALSE), r.v), v |-> r.v]

\* extend_heap that does not test what mem_sbrk returned
extend_heap_mut(h, size0) ==
    LET size == round_up(size0, dsize)
        r == mem_sbrk(h, size)
    IN  [h |-> add_to_list(write_block(r.h, r.v, size, FALSE), r.v), v |-> r.v]

extend_heap(h, size0) ==
    LET size == round_up(size0, dsize)
        r == mem_sbrk(h, size)
    IN  IF r.v = SbrkFail THEN [h |-> r.h, v |-> NULL]
        ELSE [h |-> add_to_list(write_block(r.h, r.v, size, FALSE), r.v), v |-> r.v]

\* coalesce that never merges the block with the block after it
coalesce_next_mut(h, block) ==
    LET hA == ck(ck(h, block), find_prev_footer(block))
        prev_block == get_prev_block(h, block)
        prev_ok == in_heap(h, prev_block) /\ prev_block # NULL
        prev_alloc == IF prev_ok THEN extract_alloc(ld(h, find_prev_footer(block))) ELSE TRUE
        size == get_size(h, block)
    IN  IF prev_alloc
        THEN [h |-> add_to_list(hA, block), v |-> block]
        ELSE LET h1 == remove_from_list(hA, prev_block)
                 size2 == Add(size, get_size(h1, prev_block))
                 h2 == write_block(ck(h1, prev_block), prev_block, size2, FALSE)
             IN  [h |-> add_to_list(h2, prev_block), v |-> prev_block]

\* coalesce that lists the block without looking at its neighbours
coalesce_mut(h, block) == [h |-> add_to_list(h, block), v |-> block]

coalesce(h, block) ==
    LET hA == ck(ck(h, block), find_prev_footer(block))
        next_block == get_next_block(h, block)
        prev_block == get_prev_block(h, block)
        prev_ok == in_heap(h, prev_block) /\ prev_block # NULL
        next_ok == in_heap(h, next_block) /\ next_block # NULL
        prev_alloc == IF prev_ok THEN extract_alloc(ld(h, find_prev_footer(block))) ELSE TRUE
        hB == IF next_ok THEN ck(hA, next_block) ELSE hA
        next_alloc == IF next_ok THEN get_alloc(h, next_block) ELSE TRUE
        size == get_size(h, block)
    IN  IF prev_alloc /\ next_alloc
        THEN [h |-> add_to_list(hB, block), v |-> block]
        ELSE IF prev_alloc /\ ~next_alloc
        THEN LET h1 == remove_from_list(hB, next_block)
                 size2 == Add(size, get_size(h1, next_block))
                 h2 == write_block(h1, block, size2, FALSE)
             IN  [h |-> add_to_list(h2, block), v |-> block]
        ELSE IF ~prev_alloc /\ next_alloc
        THEN LET h1 == remove_from_list(hB, prev_block)
                 size2 == Add(size, get_size(h1, prev_block))
                 h2 == write_block(ck(h1, prev_block), prev_block, size2, FALSE)
             IN  [h |-> add_to_list(h2, prev_block), v |-> prev_block]
        ELSE LET h1 == remove_from_list(hB, prev_block)
                 h2 == remove_from_list(h1, next_block)
                 size2 == Add(size, Add(get_size(h2, next_block), get_size(h2, prev_block)))
                 h3 == write_block(ck(h2, prev_block), prev_block, size2, FALSE)
             IN  [h |-> add_to_list(h3, prev_block), v |-> prev_block]

\* the loop of find_fit without its end at the entry of size 0
RECURSIVE find_fit_from_mut(_, _, _, _)
find_fit_from_mut(h, block, asize, seen) ==
    IF ck(h, block).fault # "none" THEN [h |-> ck(h, block), v |-> NULL]
    ELSE IF asize <= get_size(h, block) THEN [h |-> h, v |-> block]
    ELSE IF block \in seen THEN [h |-> Fault(h, "loop"), v |-> NULL]
    ELSE IF ck(h, NextField(block)).fault # "none"
         THEN [h |-> ck(h, NextField(block)), v |-> NULL]
    ELSE find_fit_from_mut(h, get_next_free(h, block), asize, seen \cup {block})

\* the loop of find_fit from the list entry block on; seen holds the entries
\* already visited, so a walk that never returns to a zero-size header is
\* reported as a fault instead of being unrolled forever
RECURSIVE find_fit_from(_, _, _, _)
find_fit_from(h, block, asize, seen) ==
    IF ck(h, block).fault # "none" THEN [h |-> ck(h, block), v |-> NULL]
    ELSE IF ~(get_size(h, block) > 0) THEN [h |-> h, v |-> NULL]
    ELSE IF asize <= get_size(h, block) THEN [h |-> h, v |-> block]
    ELSE IF block \in seen THEN [h |-> Fault(h, "loop"), v |-> NULL]
    ELSE IF ck(h, NextField(block)).fault # "none"
         THEN [h |-> ck(h, NextField(block)), v |-> NULL]
    ELSE find_fit_from(h, get_next_free(h, block), asize, seen \cup {block})

\* find_fit that passes over a block of exactly the size asked for
find_fit_mut(h, asize) ==
    IF ck(h, NextField(h.free_root)).fault # "none"
    THEN [h |-> ck(h, NextField(h.free_root)), v |-> NULL]
    ELSE find_fit_from(h, get_next_free(h, h.free_root), asize + 1, {})

find_fit(h, asize) ==
    IF ck(h, NextField(h.free_root)).fault # "none"
    THEN [h |-> ck(h, NextField(h.free_root)), v |-> NULL]
    ELSE find_fit_from(h, get_next_free(h, h.free_root), asize, {})

\* a split whose remainder is written one double word short
place_remainder_mut(h, block, rsize) ==
    IF get_next_block(h, block) = NULL THEN h
    ELSE add_to_list(write_block(h, get_next_block(h, block), rsize - dsize, FALSE),
                     get_next_block(h, block))

\* the split of place: the part of the block after the first asize bytes
\* becomes a free block of rsize bytes at the tail of the list
place_remainder(h, block, rsize) ==
    IF get_next_block(h, block) = NULL THEN h
    ELSE add_to_list(write_block(h, get_next_block(h, block), rsize, FALSE),
                     get_next_block(h, block))

\* place that never splits: the whole block is allocated
place_whole_mut(h, block, asize) ==
    write_block(remove_from_list(ck(h, block), block), block,
                get_size(h, block), TRUE)

\* place that leaves a block it allocates whole on the free list
place_mut(h, block, asize) ==
    IF Sub(get_size(h, block), asize) >= min_block_size
    THEN place_remainder(
             write_block(remove_from_list(ck(h, block), block), block, asize, TRUE),
             block, Sub(get_size(h, block), asize))
    ELSE write_block(ck(h, block), block, get_size(h, block), TRUE)

place(h, block, asize) ==
    IF Sub(get_size(h, block), asize) >= min_block_size
    THEN place_remainder(
             write_block(remove_from_list(ck(h, block), block), block, asize, TRUE),
             block, Sub(get_size(h, block), asize))
    ELSE write_block(remove_from_list(ck(h, block), block), block,
                     get_size(h, block), TRUE)

(**************************** allocator methods ****************************)
\* mm_init that reserves six words, not five, ahead of the first block
mm_init_mut(h) ==
    LET r == mem_sbrk(h, 6 * wsize)
    IN  IF r.v = SbrkFail THEN [h |-> r.h, v |-> FALSE]
        ELSE LET start == r.v
                 h1 == st(r.h, start, pack(0, TRUE))
                 h2 == st(h1, start + wsize, pack(0, TRUE))
                 h3 == st(h2, start + 4 * wsize, pack(0, TRUE))
                 h4 == [h3 EXCEPT !.prologue = start, !.free_root = start + wsize]
                 h5 == st(h4, PrevField(h4.free_root), h4.free_root)
                 h6 == st(h5, NextField(h4.free_root), h4.free_root)
                 e == extend_heap(h6, chunksize)
             IN  [h |-> e.h, v |-> e.v # NULL]

mm_init(h) ==
    LET r == mem_sbrk(h, 5 * wsize)
    IN  IF r.v = SbrkFail THEN [h |-> r.h, v |-> FALSE]
        ELSE LET start == r.v
                 h1 == st(r.h, start, pack(0, TRUE))
                 h2 == st(h1, start + wsize, pack(0, TRUE))
                 h3 == st(h2, start + 4 * wsize, pack(0, TRUE))
                 h4 == [h3 EXCEPT !.prologue = start, !.free_root = start + wsize]
                 h5 == st(h4, PrevField(h4.free_root), h4.free_root)
                 h6 == st(h5, NextField(h4.free_root), h4.free_root)
                 e == extend_heap(h6, chunksize)
             IN  [h |-> e.h, v |-> e.v # NULL]

\* the end of malloc: the block found or made is placed and its payload
\* returned; no block ends the call with NULL
malloc_place(h, block, asize) ==
    IF block = NULL THEN [h |-> h, v |-> NULL]
    ELSE [h |-> place(h, block, asize), v |-> header_to_payload(block)]

\* malloc after find_fit has returned f: without a fit the heap is extended
malloc_extend(e, asize) == malloc_place(e.h, e.v, asize)

\* malloc that extends the heap by the adjusted size only
malloc_fit_mut(f, asize) ==
    IF f.v # NULL THEN malloc_place(f.h, f.v, asize)
    ELSE malloc_extend(extend_heap(f.h, asize), asize)

malloc_fit(f, asize) ==
    IF f.v # NULL THEN malloc_place(f.h, f.v, asize)
    ELSE malloc_extend(extend_heap(f.h, max(asize, chunksize)), asize)

\* malloc after the lazy initialisation
malloc_sized(h, size) ==
    IF size <= 0 THEN [h |-> h, v |-> NULL]
    ELSE malloc_fit(find_fit(h, round_up(Add(size, dsize), dsize)),
                    round_up(Add(size, dsize), dsize))

malloc(h, size) ==
    malloc_sized(IF h.free_root = NULL THEN mm_init(h).h ELSE h, size)

\* free that lists the block without coalescing it
free_mut(h, ptr) ==
    LET block == payload_to_header(ptr)
        size == get_size(h, block)
        h1 == write_block(ck(h, block), block, size, FALSE)
    IN  add_to_list(h1, block)

free(h, ptr) ==
    LET block == payload_to_header(ptr)
        size == get_size(h, block)
        h1 == write_block(ck(h, block), block, size, FALSE)
    IN  coalesce(h1, block).h

\* a copy size that is one byte short
realloc_copysize_mut(h, block, size) ==
    IF size < get_payload_size(h, block) THEN size - 1
    ELSE get_payload_size(h, block) - 1

\* the bytes realloc copies: the smaller of the request and the old payload
realloc_copysize(h, block, size) ==
    IF size < get_payload_size(h, block) THEN size ELSE get_payload_size(h, block)

\* realloc after its malloc has returned m, giving the old block up when no
\* new block can be had
realloc_moved_mut(m, ptr, size) ==
    IF m.v = NULL THEN [h |-> free(m.h, ptr), v |-> NULL]
    ELSE [h |-> free(memcpy(ck(m.h, payload_to_header(ptr)), m.v, ptr,
                            realloc_copysize(m.h, payload_to_header(ptr), size)),
                     ptr),
          v |-> m.v]

\* realloc after its malloc has returned m
realloc_moved(m, ptr, size) ==
    IF m.v = NULL THEN [h |-> m.h, v |-> NULL]
    ELSE [h |-> free(memcpy(ck(m.h, payload_to_header(ptr)), m.v, ptr,
                            realloc_copysize(m.h, payload_to_header(ptr), size)),
                     ptr),
          v |-> m.v]

\* realloc that returns NULL for size 0 without freeing the block
realloc_mut(h, ptr, size) ==
    IF size = 0 THEN [h |-> h, v |-> NULL]
    ELSE IF ptr = NULL THEN malloc(h, size)
    ELSE realloc_moved(malloc(h, size), ptr, size)

\* realloc that keeps the block where it is when the new size fits it
realloc_inplace_mut(h, ptr, size) ==
    IF size = 0 THEN [h |-> free(h, ptr), v |-> NULL]
    ELSE IF ptr = NULL THEN malloc(h, size)
    ELSE IF size <= get_payload_size(h, payload_to_header(ptr))
         THEN [h |-> ck(h, payload_to_header(ptr)), v |-> ptr]
    ELSE realloc_moved(malloc(h, size), ptr, size)

realloc(h, ptr, size) ==
    IF size = 0 THEN [h |-> free(h, ptr), v |-> NULL]
    ELSE IF ptr = NULL THEN malloc(h, size)
    ELSE realloc_moved(malloc(h, size), ptr, size)

\* elements * size in the size type, computed without leaving TLC's integers
MulMod(a, b) ==
    LET lo == (a * (b % 256)) % SizeMod
        hi == ((((a * (b \div 256)) % SizeMod) * 256)) % SizeMod
    IN  (lo + hi) % SizeMod

\* a zero-fill that stops one byte short
calloc_filled_mut(m, asize) ==
    IF m.v = NULL THEN [h |-> m.h, v |-> NULL]
    ELSE [h |-> memset(m.h, m.v, 0, asize - 1), v |-> m.v]

\* calloc after its malloc has returned m
calloc_filled(m, asize) ==
    IF m.v = NULL THEN [h |-> m.h, v |-> NULL]
    ELSE [h |-> memset(m.h, m.v, 0, asize), v |-> m.v]

\* calloc without the test of the product
calloc_mut(h, elements, size) ==
    IF elements = 0 THEN [h |-> Fault(h, "div0"), v |-> NULL]
    ELSE calloc_filled(malloc(h, MulMod(elements, size)), MulMod(elements, size))

calloc(h, elements, size) ==
    IF elements = 0 THEN [h |-> Fault(h, "div0"), v |-> NULL]
    ELSE IF MulMod(elements, size) \div elements # size THEN [h |-> h, v |-> NULL]
    ELSE calloc_filled(malloc(h, MulMod(elements, size)), MulMod(elements, size))

\* calloc(0, size) on a build whose division by zero does not trap but
\* yields quot: the product is 0, and the test compares quot with size
calloc_div0(h, size, quot) ==
    IF quot # size THEN [h |-> h, v |-> NULL]
    ELSE calloc_filled(malloc(h, 0), 0)

(****************************** mm_checkheap *******************************)
\* sizeof(block_t): the header word and the two link words
block_size == 3 * wsize

\* a read of mm_checkheap: a word of the heap that was never written holds
\* whatever the region held before, here junk
ldj(h, a, junk) == IF WordIn(h, a) /\ ~WordInit(h, a) THEN junk ELSE ld(h, a)

\* a dereference of mm_checkheap: only a word outside the heap is a fault
ckj(h, a) == IF ~WordIn(h, a) THEN Fault(h, "oob") ELSE h

\* the loop over the free list: ends at the entry of size 0 (the root), fails
\* on an entry below heap_low or above the last byte of the heap
RECURSIVE checkheap_list(_, _, _, _)
checkheap_list(h, tmp, junk, seen) ==
    IF ckj(h, tmp).fault # "none" THEN [h |-> ckj(h, tmp), v |-> FALSE]
    ELSE IF ~(extract_size(ldj(h, tmp, junk)) > 0) THEN [h |-> h, v |-> TRUE]
    ELSE IF tmp < mem_heap_lo \/ tmp > mem_heap_hi(h) THEN [h |-> h, v |-> FALSE]
    ELSE IF tmp \in seen THEN [h |-> Fault(h, "loop"), v |-> FALSE]
    ELSE IF ckj(h, NextField(tmp)).fault # "none"
         THEN [h |-> ckj(h, NextField(tmp)), v |-> FALSE]
    ELSE checkheap_list(h, ldj(h, NextField(tmp), junk), junk, seen \cup {tmp})

\* the part of mm_checkheap after the loop over the blocks
checkheap_free(h, junk) ==
    IF ckj(h, NextField(h.free_root)).fault # "none"
    THEN [h |-> ckj(h, NextField(h.free_root)), v |-> FALSE]
    ELSE checkheap_list(h, ldj(h, NextField(h.free_root), junk), junk, {})

\* the end of a run of mm_checkheap: what it returns, the blocks its loop
\* visited as curr, and the diagnostic it printed ("none" when it passed)
Verdict(h, v, walk, why) == [h |-> h, v |-> v, walk |-> walk, why |-> why]

\* mm_checkheap after the loop over the blocks, r the result of the loop
\* over the free list
checkheap_after(r, walk) ==
    Verdict(r.h, r.v, walk, IF r.h.fault # "none" THEN "fault"
                            ELSE IF r.v THEN "none" ELSE "range")

\* the test of mm_checkheap for two adjacent free blocks
adjacent_free(curr_alloc, next_alloc) == ~curr_alloc \/ ~next_alloc

\* where the loop over the blocks starts: prologue is a pointer to words, so
\* prologue + 5 * wsize is 5 * wsize words, 5 * wsize * wsize bytes, past it
checkheap_start(h) == Add(h.prologue, 5 * wsize * wsize)

\* the loop over the blocks, standing at curr, walk the blocks visited so
\* far: it goes on while the block after curr, plus one block_t, lies below
\* the last byte of the heap
RECURSIVE checkheap_blocks(_, _, _, _)
checkheap_blocks(h, curr, junk, walk) ==
    IF ckj(h, curr).fault # "none" THEN Verdict(ckj(h, curr), FALSE, walk, "fault")
    ELSE
    LET hdr  == ldj(h, curr, junk)
        size == extract_size(hdr)
        next == Add(curr, size)
        here == Append(walk, curr)
    IN  IF ~(Add(next, block_size) < mem_heap_hi(h))
        THEN checkheap_after(checkheap_free(h, junk), walk)
        ELSE IF ckj(h, find_prev_footer(next)).fault # "none"
             THEN Verdict(ckj(h, find_prev_footer(next)), FALSE, here, "fault")
        ELSE IF hdr # ldj(h, find_prev_footer(next), junk)
             THEN Verdict(h, FALSE, here, "header != footer")
        ELSE IF extract_alloc(hdr) /\ ~aligned(header_to_payload(curr))
             THEN Verdict(h, FALSE, here, "payload not aligned")
        ELSE IF size < min_block_size
             THEN Verdict(h, FALSE, here, "size less than min_block_size")
        ELSE IF size % dsize # 0 THEN Verdict(h, FALSE, here, "size not dsize")
        ELSE IF ckj(h, next).fault # "none"
             THEN Verdict(ckj(h, next), FALSE, here, "fault")
        ELSE IF adjacent_free(extract_alloc(hdr), extract_alloc(ldj(h, next, junk)))
             THEN Verdict(h, FALSE, here, "two adjacent free blocks")
        ELSE IF \E i \in 1..Len(walk) : walk[i] = curr
             THEN Verdict(Fault(h, "loop"), FALSE, here, "fault")
        ELSE checkheap_blocks(h, next, junk, here)

mm_checkheap(h, junk) ==
    IF checkheap_start(h) = NULL THEN Verdict(h, TRUE, << >>, "none")
    ELSE checkheap_blocks(h, checkheap_start(h), junk, << >>)

(******************************* the state *********************************)
\* the allocator's globals and the heap, as one record handed to the methods
Cur ==
    [mem |-> mem, brk |-> brk, max |-> mem_max_addr, free_root |-> free_root,
     prologue |-> prologue, counter_global |-> counter_global, fault |-> "none"]

Drop(f, p) == [x \in (DOMAIN f) \ {p} |-> f[x]]

NoCall == [op |-> "none", a1 |-> 0, a2 |-> 0, ret |-> NULL, fault |-> "none"]

Call(op, a1, a2, ret) == [op |-> op, a1 |-> a1, a2 |-> a2, ret |-> ret, fault |-> "none"]

(********************* the other programs at their start *******************)
Threads == 1..MaxThreads
\* the request URLs clients ask for
Uris == {"u1", "u2"}
\* no thread, no cache entry
NoThread == 0
NoEntry == "null"

\* main of the proxy up to its accept loop: init_cache() leaves the cache
\* empty, Sem_init(&mutex, 0, 1) leaves the semaphore at 1, and no request
\* thread exists yet
ProxyStart ==
    /\ mutex = 1
    /\ holder = NoThread
    /\ cache = {}
    /\ tpc = [t \in Threads |-> "idle"]
    /\ turi = [t \in Threads |-> "u1"]
    /\ cache_entry = [t \in Threads |-> NoEntry]

\* the process ids of the shell's children
Pids == 1..MaxChildren
SIGCHLD == "SIGCHLD"
SIGINT == "SIGINT"
SIGTSTP == "SIGTSTP"

\* main of the shell when it first reads a command line: the handlers are
\* installed, no signal is blocked or pending, no child and no job exists,
\* and the flag waitpidNeeded has its static initial value
ShellStart ==
    /\ sh_pc = "read"
    /\ parse_result = "FG"
    /\ processId = 0
    /\ prev_mask = {}
    /\ blocked = {}
    /\ pending = {}
    /\ hnd = "none"
    /\ h_pid = 0
    /\ proc = [c \in Pids |-> "none"]
    /\ jobs = [c \in Pids |-> "none"]
    /\ waitpidNeeded = 0

\* simulateCacheOps before initCache: no cache, the counters at zero
NoCache == [s |-> 0, e |-> 0, b |-> 0, sets |-> << >>]
SimStart ==
    /\ myCache = NoCache
    /\ hits = 0
    /\ misses = 0
    /\ evictions = 0
    /\ dirtyBlocksInCache = 0
    /\ dirtyBlocksEvicted = 0
    /\ operationCounter = 0

\* the programs other than the allocator, which an allocator call leaves alone
othervars == <<proxyvars, shellvars, simvars>>
OthersStart == ProxyStart /\ ShellStart /\ SimStart

\* the end of a call: its effect on the globals and the heap, or, after
\* undefined behaviour, the end of the run
Commit(h, call, lv) ==
    /\ nops < MaxOps
    /\ UNCHANGED othervars
    /\ nops' = nops + 1
    /\ UNCHANGED mem_max_addr
    /\ IF h.fault = "none"
       THEN /\ mem' = h.mem
            /\ brk' = h.brk
            /\ free_root' = h.free_root
            /\ prologue' = h.prologue
            /\ counter_global' = h.counter_global
            /\ live' = lv
            /\ last' = call
            /\ status' = "ok"
       ELSE /\ last' = [call EXCEPT !.ret = NULL, !.fault = h.fault]
            /\ status' = "crashed"
            /\ UNCHANGED <<mem, brk, free_root, prologue, counter_global, live>>

\* the address space the environment is able to grant, fixed at start
HeapSlack == 4 * ALIGNMENT
HeapCaps ==
    {mem_heap_lo, mem_heap_lo + 5 * wsize}
        \cup {mem_heap_lo + 5 * wsize + k * chunksize + HeapSlack : k \in 1..MaxChunks}

\* request sizes a caller may pass: 0, the smallest request, one that takes
\* a whole chunk without a split, and one larger than a chunk
ReqSizes == {0, 12, 4064, 4100}
\* request sizes whose adjustment wraps around in the size type
OverSizes == {SIZE_MAX - 15, SIZE_MAX - 5}
\* byte values a caller writes
Patterns == {165}
\* calloc arguments (elements, size)
CallocArgs == {<<0, 8>>, <<3, 8>>, <<SIZE_MAX, 2>>, <<2, SizeMod \div 2>>}
\* realloc sizes
ReallocSizes == {0, 12, 4100}

\* the last call was one that returns an address
IsAllocCall == last.op \in {"malloc", "realloc", "calloc"}

Init ==
    /\ mem = << >>
    /\ brk = mem_heap_lo
    /\ mem_max_addr \in HeapCaps
    /\ free_root = NULL
    /\ prologue = NULL
    /\ counter_global = 0
    /\ OthersStart
    /\ live = << >>
    /\ last = NoCall
    /\ status = "ok"
    /\ nops = 0

\* the return of each call with result r: what the caller learns and holds
MmInitRet(r) == Commit(r.h, Call("mm_init", 0, 0, IF r.v THEN 1 ELSE 0), live)

MallocRet(r, size) ==
    Commit(r.h, Call("malloc", size, 0, r.v),
           IF r.v # NULL THEN (r.v :> size) @@ live ELSE live)

ReallocRet(r, p, size) ==
    Commit(r.h, Call("realloc", p, size, r.v),
           IF size = 0 THEN Drop(live, p)
           ELSE IF r.v # NULL THEN (r.v :> size) @@ Drop(live, p)
           ELSE live)

CallocRet(r, elements, size) ==
    Commit(r.h, Call("calloc", elements, size, r.v),
           IF r.v # NULL THEN (r.v :> MulMod(elements, size)) @@ live ELSE live)

MmInit ==
    /\ status = "ok"
    /\ free_root = NULL
    /\ MmInitRet(mm_init(Cur))

Malloc(size) ==
    /\ status = "ok"
    /\ MallocRet(malloc(Cur, size), size)

Free(p) ==
    /\ status = "ok"
    /\ p \in DOMAIN live
    /\ Commit(free(Cur, p), Call("free", p, live[p], NULL), Drop(live, p))

Realloc(p, size) ==
    /\ status = "ok"
    /\ p \in (DOMAIN live) \cup {NULL}
    /\ ReallocRet(realloc(Cur, p, size), p, size)

\* what a division of 0 by 0 that does not trap may yield: 0, or a value
\* that passes the test of the product
Div0Quotients(size) == {0, size}

\* calloc(0, size) divides by zero, which is undefined: the call traps (the
\* fault of calloc), or goes on with some quotient
Calloc(elements, size) ==
    /\ status = "ok"
    /\ \/ CallocRet(calloc(Cur, elements, size), elements, size)
       \/ /\ elements = 0
          /\ \E quot \in Div0Quotients(size) :
                CallocRet(calloc_div0(Cur, size, quot), elements, size)

\* the byte at offset i of the pattern that starts with the byte c
PatternByte(c, i) == (c + i) % 256

\* the caller's stores of the first n bytes of a pattern at p
store_pattern(h, p, c, n) ==
    IF ~RangeIn(h, p, n) THEN Fault(h, "oob")
    ELSE [h EXCEPT !.mem = [x \in ByteRange(p, n) |-> PatternByte(c, x - p)] @@ @]

\* the caller stores a byte pattern into the first bytes of the allocation
\* it has just obtained
UserWrite(p, c) ==
    /\ status = "ok"
    /\ p \in DOMAIN live
    /\ IsAllocCall /\ last.ret = p
    /\ LET n == IF live[p] < MaxWrite THEN live[p] ELSE MaxWrite
       IN  Commit(store_pattern(Cur, p, c, n), Call("write", p, c, NULL), live)

Next ==
    \/ MmInit
    \/ \E size \in ReqSizes : Malloc(size)
    \/ \E p \in DOMAIN live : Free(p)
    \/ \E p \in (DOMAIN live) \cup {NULL}, size \in ReallocSizes : Realloc(p, size)
    \/ \E a \in CallocArgs : Calloc(a[1], a[2])
    \/ \E p \in DOMAIN live, c \in Patterns : UserWrite(p, c)

Spec == Init /\ [][Next]_vars

\* the same calls, and also requests so large that their adjustment wraps
NextAny ==
    \/ Next
    \/ \E size \in OverSizes : Malloc(size)

SpecAny == Init /\ [][NextAny]_vars

\* what a never-written word of the heap may hold when mm_checkheap reads
\* it: zero, the header of an allocated block of the minimum size, or the
\* header of a free block larger than the heap
JunkWords == {0, pack(min_block_size, TRUE), MaxChunks * chunksize + chunksize}

CheckHeapRet(r, junk) ==
    Commit(r.h, Call("mm_checkheap", junk, 0, IF r.v THEN 1 ELSE 0), live)

CheckHeap(junk) ==
    /\ status = "ok"
    /\ CheckHeapRet(mm_checkheap(Cur, junk), junk)

\* the calls of Next, and the heap checker called between them
NextCheck ==
    \/ Next
    \/ \E junk \in JunkWords : CheckHeap(junk)

SpecCheck == Init /\ [][NextCheck]_vars

(****************************** scenarios **********************************)
\* request sizes of the scenarios: 32, 48, 16 and 40 bytes, 100 bytes, and
\* the largest request that the first chunk holds
ScenSizes == {16, 32, 40, 48, 100, chunksize - dsize}

\* a fresh allocator whose heap can grow by MaxChunks chunks, with ScenOps
\* calls to come
InitScen ==
    /\ mem = << >>
    /\ brk = mem_heap_lo
    /\ mem_max_addr = mem_heap_lo + 5 * wsize + MaxChunks * chunksize + HeapSlack
    /\ free_root = NULL
    /\ prologue = NULL
    /\ counter_global = 0
    /\ OthersStart
    /\ live = << >>
    /\ last = NoCall
    /\ status = "ok"
    /\ nops = MaxOps - ScenOps

\* malloc and free only
NextScen ==
    \/ \E size \in ScenSizes : Malloc(size)
    \/ \E p \in DOMAIN live : Free(p)

SpecScen == InitScen /\ [][NextScen]_vars

(************************ the heap as the code sees it *********************)
\* the blocks met by stepping from block a by each header's size, as
\* get_next_block does, up to the heap top
RECURSIVE PhysFrom(_, _)
PhysFrom(h, a) ==
    IF a >= h.brk \/ ~WordIn(h, a) \/ ~WordInit(h, a) \/ get_size(h, a) = 0
    THEN << >>
    ELSE <<a>> \o PhysFrom(h, get_next_block(h, a))

\* the first real block: the one mm_init's extend_heap creates after the
\* prologue word and the four words of the root
PhysBlocks(h) ==
    IF h.free_root = NULL THEN << >> ELSE PhysFrom(h, h.prologue + 5 * wsize)

\* the entries met by following next from the root until the root is met again
RECURSIVE ListFrom(_, _, _)
ListFrom(h, b, seen) ==
    IF b = h.free_root \/ b \in seen \/ ~WordIn(h, NextField(b)) \/ ~WordInit(h, NextField(b))
    THEN << >>
    ELSE <<b>> \o ListFrom(h, get_next_free(h, b), seen \cup {b})

FreeList(h) ==
    IF h.free_root = NULL THEN << >>
    ELSE ListFrom(h, get_next_free(h, h.free_root), {})

Range(q) == {q[i] : i \in 1..Len(q)}

PhysFree(h) == {b \in Range(PhysBlocks(h)) : ~get_alloc(h, b)}

PhysAlloc(h) == {b \in Range(PhysBlocks(h)) : get_alloc(h, b)}

(******************************** claims ***********************************)
\* C1: every non-null address returned by malloc, realloc or calloc, and so
\* every pointer the caller holds, is a multiple of 16 (mem_heap_lo is)
C1_ReturnedAligned ==
    /\ \A p \in DOMAIN live : p % ALIGNMENT = 0
    /\ (IsAllocCall /\ last.ret # NULL) => last.ret % ALIGNMENT = 0

\* a realloc has just moved an allocation while another one is held
C1_Witness ==
    /\ last.op = "realloc" /\ last.a1 # NULL /\ last.ret # NULL
    /\ Cardinality(DOMAIN live) >= 2
    /\ mem_heap_lo % ALIGNMENT = 0

\* C3: after every completed call no two physically adjacent blocks are both free
C3_NoAdjacentFree ==
    LET q == PhysBlocks(Cur)
    IN  \A i \in 1..(Len(q) - 1) : get_alloc(Cur, q[i]) \/ get_alloc(Cur, q[i + 1])

\* a free has just merged the freed block into its free predecessor (the freed
\* block's header is no longer a block start) while another block is allocated
C3_Witness ==
    /\ last.op = "free" /\ status = "ok"
    /\ payload_to_header(last.a1) \notin Range(PhysBlocks(Cur))
    /\ PhysAlloc(Cur) # {}
    /\ PhysFree(Cur) # {}

\* C4: the blocks on the free list are exactly the blocks whose header says
\* free in the physical scan, each listed once
C4_FreeListIsFreeBlocks ==
    LET fl == FreeList(Cur)
    IN  /\ Range(fl) = PhysFree(Cur)
        /\ Len(fl) = Cardinality(PhysFree(Cur))

\* two free blocks are listed while two blocks are allocated
C4_Witness ==
    /\ Len(FreeList(Cur)) >= 2
    /\ Cardinality(PhysAlloc(Cur)) >= 2

\* C5: the header of every free block and the footer in the block's last word
\* hold the same size and the same allocated flag
C5_HeaderEqualsFooter ==
    \A b \in PhysFree(Cur) :
        LET f == ld(Cur, Sub(Add(b, get_size(Cur, b)), wsize))
        IN  /\ WordInit(Cur, Sub(Add(b, get_size(Cur, b)), wsize))
            /\ extract_size(f) = get_size(Cur, b)
            /\ extract_alloc(f) = get_alloc(Cur, b)

\* a free block made by merging lies between two allocated blocks' positions
C5_Witness ==
    /\ last.op = "free" /\ status = "ok"
    /\ Cardinality(PhysFree(Cur)) >= 2
    /\ PhysAlloc(Cur) # {}

\* C6: every real block has a size of at least min_block_size that is a
\* multiple of 16, and the real blocks are all of the heap: the scan from the
\* first block ends exactly at the heap top
C6_BlockSizes ==
    LET q == PhysBlocks(Cur)
    IN  /\ \A b \in Range(q) :
              get_size(Cur, b) >= min_block_size /\ get_size(Cur, b) % ALIGNMENT = 0
        /\ (free_root # NULL /\ status = "ok") =>
              IF q = << >> THEN brk = prologue + 5 * wsize
              ELSE Add(q[Len(q)], get_size(Cur, q[Len(q)])) = brk

\* a block of the minimum size and a block allocated whole (without a split,
\* larger than its adjusted size) are both in the heap
C6_Witness ==
    /\ \E b \in Range(PhysBlocks(Cur)) : get_size(Cur, b) = min_block_size
    /\ \E p \in DOMAIN live :
          get_size(Cur, payload_to_header(p)) > round_up(Add(live[p], dsize), dsize)

\* the heap and the globals a call may change
heapvars == <<mem, brk, free_root, prologue, counter_global>>

\* no free-list entry fits a request of size bytes and mem_sbrk refuses the
\* extension malloc would ask for
NoFitNoGrow(h, size) ==
    LET asize == round_up(Add(size, dsize), dsize)
    IN  /\ find_fit(h, asize).v = NULL
        /\ mem_sbrk(h, round_up(max(asize, chunksize), dsize)).v = SbrkFail

\* C2: a successful malloc(n), n > 0, returns the payload of an allocated
\* block of the heap whose size leaves n bytes between its header and its
\* last word, inside the heap and off the free list
C2_PayloadFits ==
    (last.op = "malloc" /\ last.a1 > 0 /\ last.ret # NULL /\ status = "ok") =>
        LET b == payload_to_header(last.ret)
        IN  /\ b \in PhysAlloc(Cur)
            /\ get_size(Cur, b) - dsize >= last.a1
            /\ last.ret + last.a1 <= brk
            /\ b \notin Range(FreeList(Cur))

\* C7: block starts lie inside the heap and malloc and free (with coalesce
\* and place) touch no word outside it
C7_NoAccessOutsideHeap ==
    /\ \A b \in Range(PhysBlocks(Cur)) : in_heap(Cur, b)
    /\ last.op \in {"malloc", "free"} => last.fault # "oob"

\* C8 as stated: a malloc(n), n > 0, that returns NULL leaves the heap, the
\* globals and the free list as they were before the call
C8_FailedMallocNoChange ==
    [][(last'.op = "malloc" /\ nops' = nops + 1 /\ last'.a1 > 0
          /\ status' = "ok" /\ last'.ret = NULL)
        => UNCHANGED <<heapvars, live>>]_vars

\* C8 amended: on a heap that is already initialised, a malloc(n), n > 0,
\* that finds no fit and is refused the extension returns NULL and leaves the
\* heap bounds, every byte of the heap, the free list and the globals unchanged
C8_FailedMallocNoChangeInit ==
    [][(status = "ok" /\ nops' = nops + 1 /\ last'.op = "malloc" /\ last'.a1 > 0
          /\ free_root # NULL /\ NoFitNoGrow(Cur, last'.a1))
        => (status' = "ok" /\ last'.ret = NULL /\ UNCHANGED <<heapvars, live>>)]_vars

\* a malloc has just failed while the caller holds an allocation it wrote to
C8_Witness ==
    /\ last.op = "malloc" /\ last.a1 > 0 /\ last.ret = NULL /\ status = "ok"
    /\ \E p \in DOMAIN live : p \in DOMAIN mem /\ mem[p] \in Patterns
    /\ NoFitNoGrow(Cur, last.a1)

\* C9: malloc(0) returns NULL and changes nothing, in every state
C9_MallocZeroNoOp ==
    [][(last'.op = "malloc" /\ nops' = nops + 1 /\ last'.a1 = 0)
        => (status' = "ok" /\ last'.ret = NULL /\ UNCHANGED <<heapvars, live>>)]_vars

\* C10: a realloc(p, n) of a held pointer, n > 0, that can get no new block
\* returns NULL, changes no byte of the heap, and leaves p's block allocated
\* and off the free list
C10_FailedReallocKeepsBlock ==
    [][(status = "ok" /\ nops' = nops + 1 /\ last'.op = "realloc"
          /\ last'.a1 \in DOMAIN live /\ last'.a2 > 0 /\ NoFitNoGrow(Cur, last'.a2))
        => /\ status' = "ok" /\ last'.ret = NULL
           /\ UNCHANGED <<heapvars, live>>
           /\ payload_to_header(last'.a1) \in PhysAlloc(Cur')
           /\ payload_to_header(last'.a1) \notin Range(FreeList(Cur'))]_vars

\* a realloc of a held pointer whose payload the caller wrote has just failed
C10_Witness ==
    /\ last.op = "realloc" /\ last.a2 > 0 /\ last.ret = NULL /\ status = "ok"
    /\ last.a1 \in DOMAIN live
    /\ last.a1 \in DOMAIN mem /\ mem[last.a1] \in Patterns
    /\ NoFitNoGrow(Cur, last.a2)

(**************************** realloc and calloc ****************************)
\* the smaller of two sizes
Min(a, b) == IF a < b THEN a ELSE b

\* C11: a successful realloc(p, m), m > 0, of a held block of n bytes returns
\* a block whose first min(n, m) bytes are the bytes the old block held: every
\* byte the caller had stored there is found at the same offset
C11_ReallocCopies ==
    [][(status = "ok" /\ nops' = nops + 1 /\ status' = "ok"
          /\ last'.op = "realloc" /\ last'.a1 \in DOMAIN live
          /\ last'.a2 > 0 /\ last'.ret # NULL)
        => \A i \in 0..(Min(live[last'.a1], last'.a2) - 1) :
              (last'.a1 + i) \in DOMAIN mem =>
                  /\ (last'.ret + i) \in DOMAIN mem'
                  /\ mem'[last'.ret + i] = mem[last'.a1 + i]]_vars

\* a realloc has just shrunk a block larger than a chunk (the size is still in
\* the word that was its header) to ReallocSizes' small size, and the new
\* block starts with the pattern
C11_Witness ==
    /\ last.op = "realloc" /\ last.ret # NULL /\ status = "ok"
    /\ last.a1 # NULL /\ last.a2 > 1 /\ last.a2 < chunksize
    /\ get_size(Cur, payload_to_header(last.a1)) > chunksize
    /\ \E c \in Patterns : \A i \in 0..(last.a2 - 1) :
          (last.ret + i) \in DOMAIN mem /\ mem[last.ret + i] = PatternByte(c, i)

\* the call leaves the heap and the globals as the record h has them
HeapBecomes(h) ==
    /\ mem' = h.mem
    /\ brk' = h.brk
    /\ free_root' = h.free_root
    /\ prologue' = h.prologue
    /\ counter_global' = h.counter_global

\* C12: realloc(p, 0) of a held pointer returns NULL and leaves the heap, the
\* free list and the globals exactly as free(p) leaves them from the same state
C12_ReallocZeroIsFree ==
    [][(status = "ok" /\ nops' = nops + 1 /\ last'.op = "realloc"
          /\ last'.a1 \in DOMAIN live /\ last'.a2 = 0)
        => /\ status' = "ok" /\ last'.ret = NULL
           /\ HeapBecomes(free(Cur, last'.a1))
           /\ live' = Drop(live, last'.a1)]_vars

\* a realloc(p, 0) has just freed a block while another block is held: the
\* block is no longer allocated and the free list is not empty
C12_Witness ==
    /\ last.op = "realloc" /\ last.a1 # NULL /\ last.a2 = 0 /\ status = "ok"
    /\ last.a1 \notin DOMAIN live /\ DOMAIN live # {}
    /\ payload_to_header(last.a1) \notin PhysAlloc(Cur)
    /\ FreeList(Cur) # << >>

\* the call returns the value and leaves the heap that the result r holds
SameAs(r) == last'.ret = r.v /\ HeapBecomes(r.h)

\* C13: realloc(NULL, n) returns what malloc(n) returns and leaves the heap
\* and the globals as malloc(n) leaves them from the same state, for every n
\* including 0, wherever malloc(n) itself is defined
C13_ReallocNullIsMalloc ==
    [][(status = "ok" /\ nops' = nops + 1 /\ last'.op = "realloc"
          /\ last'.a1 = NULL /\ malloc(Cur, last'.a2).h.fault = "none")
        => (status' = "ok" /\ SameAs(malloc(Cur, last'.a2)))]_vars

\* C14: calloc(count, size) with count > 0: when count * size does not fit
\* the size type the call returns NULL and changes nothing (no initialisation,
\* no growth); when it fits the call is not refused, it returns what
\* malloc(count * size) returns
C14_CallocOverflow ==
    [][(status = "ok" /\ nops' = nops + 1 /\ last'.op = "calloc" /\ last'.a1 > 0)
        => IF last'.a2 > SIZE_MAX \div last'.a1
           THEN status' = "ok" /\ last'.ret = NULL /\ UNCHANGED <<heapvars, live>>
           ELSE malloc(Cur, last'.a1 * last'.a2).h.fault = "none"
                   => (status' = "ok"
                         /\ last'.ret = malloc(Cur, last'.a1 * last'.a2).v)]_vars

\* a calloc whose product is exactly one more than the size type holds (it
\* wraps to 0) has just been refused while the caller holds a block
C14_Witness ==
    /\ last.op = "calloc" /\ last.a1 > 1 /\ status = "ok"
    /\ last.a1 * (last.a2 \div 2) = SizeMod \div 2 /\ last.a2 % 2 = 0
    /\ last.ret = NULL
    /\ DOMAIN live # {}

\* C15: right after a successful calloc(count, size) each of the count * size
\* bytes at the returned address has been written and is zero
C15_CallocZeroFilled ==
    (last.op = "calloc" /\ last.ret # NULL /\ status = "ok") =>
        \A i \in 0..(last.a1 * last.a2 - 1) :
            (last.ret + i) \in DOMAIN mem /\ mem[last.ret + i] = 0

\* a calloc has just returned memory that held a caller's pattern: the byte
\* after the zeroed bytes is still the pattern's byte for that offset
C15_Witness ==
    /\ last.op = "calloc" /\ last.ret # NULL /\ status = "ok"
    /\ last.a1 * last.a2 >= 2 * wsize
    /\ (last.ret + last.a1 * last.a2) \in DOMAIN mem
    /\ \E c \in Patterns :
          mem[last.ret + last.a1 * last.a2] = PatternByte(c, last.a1 * last.a2)

(******************************* find_fit ***********************************)
\* adjusted sizes asked of find_fit: the minimum block, the block of a
\* 24-byte request, a whole chunk less one split, a chunk, more than a chunk
FitSizes == {min_block_size, 3 * dsize, chunksize - min_block_size, chunksize,
             chunksize + min_block_size}

\* the first entry of the sequence q of blocks whose size is at least asize,
\* NULL when there is none
RECURSIVE FirstFit(_, _, _)
FirstFit(h, q, asize) ==
    IF q = << >> THEN NULL
    ELSE IF get_size(h, Head(q)) >= asize THEN Head(q)
    ELSE FirstFit(h, Tail(q), asize)

\* C16: on an initialised heap find_fit(asize) returns the first block in
\* free-list order, from the root's successor, whose size is at least asize,
\* and NULL exactly when no listed block is that large
C16_FindFitFirst ==
    (free_root # NULL /\ status = "ok") =>
        \A asize \in FitSizes :
            /\ find_fit(Cur, asize).h.fault = "none"
            /\ find_fit(Cur, asize).v = FirstFit(Cur, FreeList(Cur), asize)

\* two listed blocks are large enough for the smallest request and the one
\* listed first, which find_fit returns, lies at the higher address; the
\* one listed second fits the request exactly
C16_Witness ==
    /\ free_root # NULL /\ status = "ok"
    /\ Len(FreeList(Cur)) >= 2
    /\ FreeList(Cur)[1] > FreeList(Cur)[2]
    /\ get_size(Cur, FreeList(Cur)[2]) = min_block_size
    /\ find_fit(Cur, min_block_size).v = FreeList(Cur)[1]

(******************************* scenarios *********************************)
\* four calls after the start: malloc(32) = A, malloc(48) = B, malloc(16) = C
\* in this order (the addresses rise) and free(B), which is the last call
Scen17Freed ==
    /\ nops = MaxOps - ScenOps + 4 /\ status = "ok"
    /\ last.op = "free" /\ last.a2 = 48
    /\ \E a, c \in DOMAIN live :
          a < last.a1 /\ last.a1 < c /\ live = (a :> 32) @@ (c :> 16)

\* C17 as stated: after A, B, C and free(B), malloc(40) returns B's address
\* and the heap top stays
C17_ReusesFreedBlock ==
    [][(Scen17Freed /\ nops' = nops + 1 /\ last'.op = "malloc" /\ last'.a1 = 40)
        => (last'.ret = last.a1 /\ brk' = brk)]_vars

\* C17 amended: after A, B, C and free(B), malloc(40) returns the payload of
\* the block that follows C, the remainder of the chunk, which is listed
\* before B; B's block stays free and the heap top stays
C17_TakesRemainder ==
    [][(Scen17Freed /\ nops' = nops + 1 /\ last'.op = "malloc" /\ last'.a1 = 40)
        => /\ status' = "ok" /\ brk' = brk
           /\ \E c \in DOMAIN live :
                 /\ c > last.a1
                 /\ last'.ret =
                       header_to_payload(get_next_block(Cur, payload_to_header(c)))
           /\ payload_to_header(last.a1) \in PhysFree(Cur')
           /\ FreeList(Cur) = <<payload_to_header(last'.ret), payload_to_header(last.a1)>>]_vars

\* the scenario has run: A (32), C (16) and the block of 40 bytes are held in
\* rising address order and the block after A, where B was, is free
C17_Witness ==
    /\ nops = MaxOps - ScenOps + 5 /\ status = "ok"
    /\ last.op = "malloc" /\ last.a1 = 40 /\ last.ret # NULL
    /\ \E a, c \in DOMAIN live :
          /\ a < c /\ c < last.ret
          /\ live = (a :> 32) @@ (c :> 16) @@ (last.ret :> 40)
          /\ get_next_block(Cur, payload_to_header(a)) \in PhysFree(Cur)
          /\ get_size(Cur, get_next_block(Cur, payload_to_header(a))) = 4 * dsize

\* two calls after the start, malloc(n) = A and free(A): nothing is held and
\* the last call records A and n
Scen18Freed ==
    /\ nops = MaxOps - ScenOps + 2 /\ status = "ok"
    /\ last.op = "free" /\ live = << >>

\* C18: after malloc(n) = A and free(A) on a fresh heap, with the adjusted
\* size of n no larger than the first chunk, malloc(n) returns A again and the
\* heap top stays
C18_RoundTrip ==
    [][(Scen18Freed /\ nops' = nops + 1 /\ last'.op = "malloc"
          /\ last'.a1 = last.a2
          /\ round_up(Add(last.a2, dsize), dsize) <= chunksize)
        => (status' = "ok" /\ last'.ret = last.a1 /\ brk' = brk)]_vars

\* the round trip has run with a request that had split the chunk: the block
\* held is the first block, again followed by a free remainder
C18_Witness ==
    /\ nops = MaxOps - ScenOps + 3 /\ status = "ok"
    /\ last.op = "malloc" /\ last.a1 = 100
    /\ live = (last.ret :> 100)
    /\ payload_to_header(last.ret) = prologue + 5 * wsize
    /\ Len(FreeList(Cur)) = 1
    /\ brk = prologue + 5 * wsize + chunksize

(* C19: mm_checkheap returns true in every state reached by
   precondition-respecting calls on an initialised heap that holds at least
   one block, whether or not some of its blocks are free. *)
C19_CheckHeapPasses ==
    (last.op = "mm_checkheap" /\ free_root # NULL /\ Len(PhysBlocks(Cur)) > 0)
        => (last.fault = "none" /\ last.ret = 1)

(* C20: across any sequence of public operations the heap top never
   decreases, and every change of it is a growth by a positive multiple of
   16 bytes (heap_low is the fixed address mem_heap_lo). *)
C20_GrowthMultipleOf16 ==
    [][brk' >= brk /\ (brk' - brk) % ALIGNMENT = 0]_vars

(* C20, amended: the heap top never decreases; the call that initialises
   the allocator raises it by the five words of the prologue and the root,
   plus a multiple of 16 bytes (zero if the first chunk is refused); every
   other call leaves it or raises it by a positive multiple of 16 bytes. *)
C20_GrowthAfterInit ==
    [][/\ brk' >= brk
       /\ brk' # brk =>
            IF free_root = NULL
            THEN /\ brk' - brk >= 5 * wsize
                 /\ (brk' - brk - 5 * wsize) % ALIGNMENT = 0
            ELSE (brk' - brk) % ALIGNMENT = 0]_vars

\* a malloc on an initialised heap has grown it: the first chunk is followed
\* by a second one of chunksize bytes, which mm_init never adds
C20_Witness ==
    /\ last.op = "malloc"
    /\ last.ret # NULL
    /\ free_root # NULL
    /\ brk = mem_heap_lo + 5 * wsize + 2 * chunksize

\* the block that ends at the heap top
LastBlock(h) == PhysBlocks(h)[Len(PhysBlocks(h))]

(* C21: when malloc finds no fit and extends the heap while the block that
   ends at the old heap top is free, the new block is merged with that
   block and the allocation is placed at the start of the merged block: the
   returned payload address is that of the block that was last. *)
C21_ExtensionMerged ==
    [][(/\ last'.op = "malloc" /\ status' = "ok" /\ last'.ret # NULL
        /\ free_root # NULL
        /\ brk' > brk
        /\ Len(PhysBlocks(Cur)) > 0
        /\ ~get_alloc(Cur, LastBlock(Cur)))
            => last'.ret = header_to_payload(LastBlock(Cur))]_vars

\* the adjusted size malloc computes for a request
AdjustedSize(size) == round_up(Add(size, dsize), dsize)

\* no entry of the free list is large enough for asize
NoFit(h, asize) == \A b \in Range(FreeList(h)) : get_size(h, b) < asize

(* C22: on an initialised heap (one that holds its first chunk) malloc(n),
   n > 0, grows the heap if and only if no free-list entry has size >= the adjusted size, and when it grows
   the heap top rises by exactly max(adjusted size, chunksize). *)
C22_GrowsIffNoFit ==
    [][(/\ last'.op = "malloc" /\ last'.a1 > 0
        /\ free_root # NULL /\ Len(PhysBlocks(Cur)) > 0)
        => /\ status' = "ok"
           /\ brk' > brk <=> NoFit(Cur, AdjustedSize(last'.a1))
           /\ brk' > brk => brk' - brk = max(AdjustedSize(last'.a1), chunksize)]_vars

(* C22, amended: on an initialised heap malloc(n), n > 0, grows the heap if
   and only if no free-list entry has size >= the adjusted size and mem_sbrk
   grants max(adjusted size, chunksize) bytes; when it grows the heap top
   rises by exactly that amount, and when mem_sbrk refuses, malloc returns
   NULL and the heap top stays. *)
C22_GrowsIffNoFitAndGranted ==
    [][(last'.op = "malloc" /\ last'.a1 > 0 /\ free_root # NULL)
        => /\ status' = "ok"
           /\ brk' > brk <=>
                /\ NoFit(Cur, AdjustedSize(last'.a1))
                /\ mem_sbrk(Cur, max(AdjustedSize(last'.a1), chunksize)).v # SbrkFail
           /\ brk' > brk => brk' - brk = max(AdjustedSize(last'.a1), chunksize)
           /\ (NoFit(Cur, AdjustedSize(last'.a1)) /\ brk' = brk) => last'.ret = NULL]_vars

\* a malloc on an initialised heap whose first chunk is taken has grown the
\* heap by one chunk and returned the block at the old heap top
C22_Witness ==
    /\ last.op = "malloc" /\ last.a1 = chunksize - 2 * dsize
    /\ last.ret = header_to_payload(mem_heap_lo + 5 * wsize + chunksize)
    /\ brk = mem_heap_lo + 5 * wsize + 2 * chunksize
    /\ Cardinality(DOMAIN live) >= 2

\* adjusted sizes handed to place: the minimum block, three double words,
\* and sizes that leave of a chunk a minimum block, less than that, nothing
PlaceSizes ==
    {min_block_size, 3 * dsize, chunksize - min_block_size, chunksize - dsize, chunksize}

\* the sequence q without its entry b
Without(q, b) == SelectSeq(q, LAMBDA x : x # b)

\* the header of block b and the footer in its last word are the same word
HeaderIsFooter(h, b) == ld(h, b) = ld(h, Sub(Add(b, get_size(h, b)), wsize))

\* what place(block, asize) must have made of heap h in heap h2
PlaceSplits(h, block, asize, h2) ==
    /\ h2.fault = "none"
    /\ get_alloc(h2, block)
    /\ block \notin Range(FreeList(h2))
    /\ IF get_size(h, block) - asize >= min_block_size
       THEN /\ get_size(h2, block) = asize
            /\ ~get_alloc(h2, block + asize)
            /\ get_size(h2, block + asize) = get_size(h, block) - asize
            /\ HeaderIsFooter(h2, block + asize)
            /\ block + asize \in Range(FreeList(h2))
            /\ Len(FreeList(h2)) = Len(FreeList(h))
       ELSE /\ get_size(h2, block) = get_size(h, block)
            /\ FreeList(h2) = Without(FreeList(h), block)

(* C23: place(block, asize) with asize <= the size of the listed block
   takes the block off the free list; if the block exceeds asize by at
   least min_block_size, the allocated block has size asize and a free
   remainder of the rest, with equal header and footer, starts at
   block + asize and is on the free list; otherwise the whole block is
   allocated and no entry is added to the free list. *)
C23_PlaceSplits ==
    (free_root # NULL /\ status = "ok") =>
        \A block \in Range(FreeList(Cur)) :
            \A asize \in PlaceSizes :
                asize <= get_size(Cur, block)
                    => PlaceSplits(Cur, block, asize, place(Cur, block, asize))

\* the last malloc split a listed block: its block has the minimum size and
\* the remainder after it is free and listed, while another listed block is
\* large enough to be split again and one is too small to be
C23_Witness ==
    /\ last.op = "malloc" /\ last.ret # NULL /\ status = "ok"
    /\ get_size(Cur, payload_to_header(last.ret)) = min_block_size
    /\ Add(payload_to_header(last.ret), min_block_size) \in Range(FreeList(Cur))
    /\ \E b \in Range(FreeList(Cur)) : get_size(Cur, b) >= 2 * min_block_size
    /\ \E b \in Range(FreeList(Cur)) : get_size(Cur, b) < 2 * min_block_size

\* the position of block b in the sequence q of blocks (0 when it is not one)
IndexOf(q, b) == IF b \in Range(q) THEN CHOOSE i \in 1..Len(q) : q[i] = b ELSE 0

\* the block before q[i] is free
PrevFree(h, q, i) == i > 1 /\ ~get_alloc(h, q[i - 1])

\* the block after q[i] is free
NextFree(h, q, i) == i < Len(q) /\ ~get_alloc(h, q[i + 1])

\* where the free block made by freeing q[i] starts and ends
MergedStart(h, q, i) == IF PrevFree(h, q, i) THEN q[i - 1] ELSE q[i]
MergedEnd(h, q, i) ==
    IF NextFree(h, q, i) THEN q[i + 1] + get_size(h, q[i + 1])
    ELSE q[i] + get_size(h, q[i])

\* heap h2 is heap h after the block q[i] was freed
FreedMerged(h, q, i, h2) ==
    /\ i > 0
    /\ MergedStart(h, q, i) \in PhysFree(h2)
    /\ get_size(h2, MergedStart(h, q, i)) = MergedEnd(h, q, i) - MergedStart(h, q, i)
    /\ get_size(h2, MergedStart(h, q, i)) =
           get_size(h, q[i])
           + (IF PrevFree(h, q, i) THEN get_size(h, q[i - 1]) ELSE 0)
           + (IF NextFree(h, q, i) THEN get_size(h, q[i + 1]) ELSE 0)
    /\ HeaderIsFooter(h2, MergedStart(h, q, i))
    /\ MergedStart(h, q, i) \in Range(FreeList(h2))
    /\ PrevFree(h, q, i) => q[i] \notin Range(FreeList(h2))
    /\ NextFree(h, q, i) => q[i + 1] \notin Range(FreeList(h2))
    /\ Len(FreeList(h2)) = Len(FreeList(h)) + 1
           - (IF PrevFree(h, q, i) THEN 1 ELSE 0) - (IF NextFree(h, q, i) THEN 1 ELSE 0)

(* C24: after free(p) on a held pointer the heap has one free block that
   starts at the block before p's block if that one was free, else at p's
   block, and ends at the end of the block after p's block if that one was
   free, else at the end of p's block; its size is the sum of the sizes of
   the blocks it absorbed, and the absorbed neighbours are no longer
   entries of the free list. *)
C24_FreeMerges ==
    [][(last'.op = "free" /\ last'.a1 \in DOMAIN live)
        => /\ status' = "ok"
           /\ FreedMerged(Cur, PhysBlocks(Cur),
                          IndexOf(PhysBlocks(Cur), payload_to_header(last'.a1)),
                          Cur')]_vars

\* the last free merged the freed block with the free block before it and
\* the free block after it: a free block starts below the freed block's
\* header and reaches beyond the end of any block that held the freed request
C24_Witness ==
    /\ last.op = "free" /\ status = "ok"
    /\ \E b \in PhysFree(Cur) :
          /\ b < payload_to_header(last.a1)
          /\ b + get_size(Cur, b) >=
                payload_to_header(last.a1) + AdjustedSize(last.a2) + min_block_size
    /\ PhysAlloc(Cur) # {}

\* the bytes of the block at header b in heap h
BlockBytes(h, b) == b..(b + get_size(h, b) - 1)

\* block old of heap h was given up and block new obtained in heap h2
MovedTo(h, old, h2, new) ==
    /\ new # old
    /\ new \in PhysAlloc(h2)
    /\ BlockBytes(h, old) \cap BlockBytes(h2, new) = {}
    /\ \E b \in PhysFree(h2) :
          /\ b \in Range(FreeList(h2))
          /\ BlockBytes(h, old) \subseteq BlockBytes(h2, b)

(* C25: a successful realloc(p, n) with p held and n > 0 never resizes in
   place: the returned address differs from p, the new block does not
   overlap the old one, and after the call the old block is free, part of
   an entry of the free list, while the new block is allocated. *)
C25_ReallocMoves ==
    [][(/\ last'.op = "realloc" /\ last'.a1 \in DOMAIN live
        /\ last'.a2 > 0 /\ last'.ret # NULL /\ status' = "ok")
        => /\ last'.ret # last'.a1
           /\ MovedTo(Cur, payload_to_header(last'.a1),
                      Cur', payload_to_header(last'.ret))]_vars

\* the last realloc asked for fewer bytes than the free block that now
\* covers the old payload holds, and returned another address
C25_Witness ==
    /\ last.op = "realloc" /\ last.a1 # NULL /\ last.ret # NULL /\ status = "ok"
    /\ last.a2 > 0
    /\ last.ret # last.a1
    /\ payload_to_header(last.a1) \in PhysFree(Cur)
    /\ get_payload_size(Cur, payload_to_header(last.a1)) > last.a2
    /\ payload_to_header(last.ret) \in PhysAlloc(Cur)

(* C26: for every request size from 1 to SIZE_MAX the adjusted block size
   malloc computes, in the wrap-around arithmetic of size_t, is a multiple
   of 16, at least min_block_size, and at least size + 16. *)
C26_AdjustedSizeCovers ==
    (last.op = "malloc" /\ last.a1 > 0 /\ last.fault = "none")
        => /\ AdjustedSize(last.a1) % ALIGNMENT = 0
           /\ AdjustedSize(last.a1) >= min_block_size
           /\ AdjustedSize(last.a1) >= last.a1 + dsize

(* C27: calloc(0, size) completes for every size: the test of the product
   raises no arithmetic fault, the call returns NULL, and the heap is
   unchanged. *)
C27_CallocZeroCount ==
    [][(status = "ok" /\ nops' = nops + 1 /\ last'.op = "calloc" /\ last'.a1 = 0)
        => /\ status' = "ok"
           /\ last'.fault = "none"
           /\ last'.ret = NULL
           /\ UNCHANGED <<heapvars, live>>]_vars

(* C28: if mem_sbrk refuses during the initialisation a first malloc(n),
   n > 0, performs (for the five words of the prologue and the root, or for
   the first chunk), malloc returns NULL and dereferences no unset root
   pointer. *)
C28_FailedInitReturnsNull ==
    [][(/\ status = "ok" /\ nops' = nops + 1
        /\ last'.op = "malloc" /\ last'.a1 > 0
        /\ free_root = NULL
        /\ ~mm_init(Cur).v)
        => /\ status' = "ok"
           /\ last'.fault = "none"
           /\ last'.ret = NULL]_vars

\* the root and the entries reached from it by next
ListNodes(h) == {h.free_root} \cup Range(FreeList(h))

\* the entry from which next leads back to the root
ListTail(h) ==
    IF FreeList(h) = << >> THEN h.free_root ELSE FreeList(h)[Len(FreeList(h))]

(* C29: after every call the free list is one circular doubly linked list
   through the root: next(prev(x)) = x and prev(next(x)) = x for the root
   and every entry x, following next from the root leads back to the root,
   and every free block is an entry exactly once. *)
C29_ListWellFormed ==
    (free_root # NULL /\ status = "ok") =>
        /\ \A x \in ListNodes(Cur) :
              /\ WordIn(Cur, PrevField(x)) /\ WordIn(Cur, NextField(x))
              /\ get_next_free(Cur, get_prev_free(Cur, x)) = x
              /\ get_prev_free(Cur, get_next_free(Cur, x)) = x
              /\ get_prev_free(Cur, x) \in ListNodes(Cur)
        /\ get_next_free(Cur, ListTail(Cur)) = free_root
        /\ get_prev_free(Cur, free_root) = ListTail(Cur)
        /\ Range(FreeList(Cur)) = PhysFree(Cur)
        /\ Len(FreeList(Cur)) = Cardinality(PhysFree(Cur))

\* the last free merged the freed block into the free block before it, and
\* the list holds the merged block and another entry
C29_Witness ==
    /\ last.op = "free" /\ status = "ok"
    /\ payload_to_header(last.a1) \notin Range(PhysBlocks(Cur))
    /\ Len(FreeList(Cur)) >= 2
    /\ get_prev_free(Cur, free_root) # get_next_free(Cur, free_root)

\* the entries of q that are in the set S, in the order of q
Keep(q, S) == SelectSeq(q, LAMBDA x : x \in S)

\* the free neighbours that freeing q[i] absorbs
Absorbed(h, q, i) ==
    (IF PrevFree(h, q, i) THEN {q[i - 1]} ELSE {})
        \cup (IF NextFree(h, q, i) THEN {q[i + 1]} ELSE {})

\* the list after malloc: the old entries that remain, in their old order,
\* and after them the entries that are new
MallocKeepsOrder(old, new) ==
    new = Keep(old, Range(new)) \o Keep(new, Range(new) \ Range(old))

\* the list after freeing q[i]: the old entries but the absorbed ones, in
\* their old order, and the merged block last
FreeAppends(h, q, i, old, new) ==
    new = Append(Keep(old, Range(old) \ Absorbed(h, q, i)), MergedStart(h, q, i))

(* C30: whenever a block is inserted into the free list (a freed or merged
   block, the block of a heap extension, the remainder of a split) it
   becomes the last entry in list order, the predecessor of the root, and
   the entries already listed keep their relative order: add_to_list on a
   block appends it, remove_from_list on an entry takes out that entry
   only, and so a malloc and a free leave the old entries in order with
   the inserted block last. *)
C30_InsertedLast ==
    [][(status = "ok" /\ status' = "ok" /\ free_root # NULL)
        => /\ \A b \in PhysAlloc(Cur) :
                 /\ FreeList(add_to_list(Cur, b)) = Append(FreeList(Cur), b)
                 /\ get_prev_free(add_to_list(Cur, b), free_root) = b
           /\ \A x \in Range(FreeList(Cur)) :
                 FreeList(remove_from_list(Cur, x)) = Without(FreeList(Cur), x)
           /\ last'.op = "malloc" /\ nops' = nops + 1
                 => MallocKeepsOrder(FreeList(Cur), FreeList(Cur'))
           /\ last'.op = "free" /\ nops' = nops + 1
                 => FreeAppends(Cur, PhysBlocks(Cur),
                                IndexOf(PhysBlocks(Cur), payload_to_header(last'.a1)),
                                FreeList(Cur), FreeList(Cur'))]_vars

\* the last free merged the freed block into the listed block before it; the
\* merged block is now last, behind an entry that lies at a higher address
C30_Witness ==
    /\ last.op = "free" /\ status = "ok"
    /\ payload_to_header(last.a1) \notin Range(PhysBlocks(Cur))
    /\ Len(FreeList(Cur)) >= 2
    /\ ListTail(Cur) < payload_to_header(last.a1)
    /\ ListTail(Cur) < FreeList(Cur)[1]

(* C31: the walk of mm_checkheap over the blocks starts at the first real
   block, whose header is the word 40 bytes above mem_heap_lo, and visits
   every block once, in address order, stepping by each block's size, up
   to the heap top. *)
C31_WalkVisitsBlocks ==
    (/\ last.op = "mm_checkheap" /\ last.fault = "none"
     /\ free_root # NULL /\ Len(PhysBlocks(Cur)) > 0)
        => /\ checkheap_start(Cur) = mem_heap_lo + 5 * wsize
           /\ mm_checkheap(Cur, last.a1).walk = PhysBlocks(Cur)

(* C32: for two physically consecutive blocks curr and next, mm_checkheap
   reports two adjacent free blocks exactly when both are free; a pair with
   an allocated block is not reported. *)
C32_AdjacentFreeReported ==
    (last.op = "mm_checkheap" /\ last.fault = "none" /\ free_root # NULL)
        => \A i \in 1..(Len(PhysBlocks(Cur)) - 1) :
              adjacent_free(get_alloc(Cur, PhysBlocks(Cur)[i]),
                            get_alloc(Cur, PhysBlocks(Cur)[i + 1]))
                  <=> (/\ ~get_alloc(Cur, PhysBlocks(Cur)[i])
                       /\ ~get_alloc(Cur, PhysBlocks(Cur)[i + 1]))

\* the sum of the sizes of the blocks of the sequence q
RECURSIVE SumSizes(_, _)
SumSizes(h, q) ==
    IF q = << >> THEN 0 ELSE get_size(h, Head(q)) + SumSizes(h, Tail(q))

(* C33: after every call the real blocks tile the heap: the scan that
   starts 40 bytes above mem_heap_lo and adds each block's size meets block
   headers only (each block starts where the one before it ends, and every
   block the caller holds and every entry of the free list is met) and
   lands on the heap top, so the sizes sum to the heap size minus 40. *)
C33_BlocksTileHeap ==
    (free_root # NULL /\ status = "ok") =>
        /\ prologue = mem_heap_lo
        /\ PhysBlocks(Cur) # << >> => PhysBlocks(Cur)[1] = mem_heap_lo + 5 * wsize
        /\ \A i \in 1..(Len(PhysBlocks(Cur)) - 1) :
              /\ get_size(Cur, PhysBlocks(Cur)[i]) > 0
              /\ PhysBlocks(Cur)[i + 1] =
                     PhysBlocks(Cur)[i] + get_size(Cur, PhysBlocks(Cur)[i])
        /\ SumSizes(Cur, PhysBlocks(Cur)) = brk - mem_heap_lo - 5 * wsize
        /\ \A p \in DOMAIN live : payload_to_header(p) \in PhysAlloc(Cur)
        /\ Range(FreeList(Cur)) \subseteq Range(PhysBlocks(Cur))

\* the heap was extended beyond its first chunk and holds at least three
\* blocks, free and allocated ones, after a split
C33_Witness ==
    /\ free_root # NULL /\ status = "ok"
    /\ brk > mem_heap_lo + 5 * wsize + chunksize
    /\ Len(PhysBlocks(Cur)) >= 3
    /\ PhysFree(Cur) # {} /\ Cardinality(PhysAlloc(Cur)) >= 2
    /\ SumSizes(Cur, PhysBlocks(Cur)) >= 2 * chunksize

\* the written bytes among the n bytes at p
WrittenIn(m, p, n) == {a \in DOMAIN m : a >= p /\ a < p + n}

\* the payload of the allocation at p in heap h: its written bytes
Payload(h, p) ==
    [a \in WrittenIn(h.mem, p, get_payload_size(h, payload_to_header(p))) |-> h.mem[a]]

\* the allocations of lv are in heap h2 what they were in heap h: the same
\* header word (size and allocated flag) and the same payload bytes
Untouched(h, h2, lv) ==
    \A p \in DOMAIN lv :
        /\ ld(h2, payload_to_header(p)) = ld(h, payload_to_header(p))
        /\ get_alloc(h2, payload_to_header(p))
        /\ payload_to_header(p) \in PhysAlloc(h2)
        /\ Payload(h2, p) = Payload(h, p)

(* C34: malloc, calloc and free leave every other allocation the caller
   holds untouched: each allocated block but the one returned or freed has
   the same address, size, allocated flag and payload bytes after the call
   as before it. *)
C34_OthersUntouched ==
    [][(/\ status = "ok" /\ status' = "ok" /\ nops' = nops + 1
        /\ last'.op \in {"malloc", "calloc", "free"})
        => /\ \A p \in DOMAIN live :
                 (last'.op = "free" /\ last'.a1 = p)
                     \/ (p \in DOMAIN live' /\ live'[p] = live[p])
           /\ Untouched(Cur, Cur',
                        IF last'.op = "free" THEN Drop(live, last'.a1) ELSE live)]_vars

\* the last call was a malloc, calloc or free that succeeded while the
\* caller held two other allocations, one of them with bytes written to it
C34_Witness ==
    /\ last.op \in {"malloc", "calloc", "free"} /\ status = "ok"
    /\ Cardinality(DOMAIN live \ {last.ret}) >= 2
    /\ \E p \in DOMAIN live \ {last.ret} : p \in DOMAIN mem /\ mem[p] # 0

\* an adjusted size that no block has, so that find_fit walks the whole list
NoFitSize == SizeMod - dsize

(* C35: every call ends, in every state reached by precondition-respecting
   calls: the scan of find_fit visits each entry of the free list at most
   once and stops when it is back at the root, whose size is 0, and no
   call has run into a loop. *)
C35_CallsTerminate ==
    /\ last.fault # "loop"
    /\ (free_root # NULL /\ status = "ok") =>
          /\ get_size(Cur, free_root) = 0
          /\ \A b \in Range(FreeList(Cur)) : get_size(Cur, b) > 0
          /\ Len(FreeList(Cur)) = Cardinality(Range(FreeList(Cur)))
          /\ get_next_free(Cur, ListTail(Cur)) = free_root
          /\ find_fit(Cur, NoFitSize) = [h |-> Cur, v |-> NULL]

\* the last malloc found no fit on a list of two entries, which find_fit
\* walked to its end, and took the whole block of a heap extension
C35_Witness ==
    /\ last.op = "malloc" /\ last.ret # NULL /\ status = "ok"
    /\ Len(FreeList(Cur)) >= 2
    /\ \A b \in Range(FreeList(Cur)) : get_size(Cur, b) < AdjustedSize(last.a1)
    /\ Add(payload_to_header(last.ret), AdjustedSize(last.a1)) = brk

(*********************** src/proxy_simulator.c *****************************)
\* A request thread is at one place of thread -> serve -> serve_cache or
\* serve_request: "idle" (not created), "serve" (before the lookup),
\* "read_entry" (inside the lookup), "serve_cache" (sending the response of
\* the entry the lookup returned), "serve_request" (talking to the origin
\* server), "P" (waiting for the semaphore), "put_new_entry" (inside the
\* insertion), "V" (about to release), "Close" (closing the connection).
\* holder names the thread between its P and its V.

\* the allocator takes no part in the proxy
AllocatorUnused ==
    /\ mem = << >>
    /\ brk = mem_heap_lo
    /\ mem_max_addr = mem_heap_lo
    /\ free_root = NULL
    /\ prologue = NULL
    /\ counter_global = 0
    /\ live = << >>
    /\ last = NoCall
    /\ status = "ok"
    /\ nops = 0

InitProxy == AllocatorUnused /\ ProxyStart /\ ShellStart /\ SimStart

\* thread t moves to place pc; a step of the proxy leaves the other
\* programs alone
Goto(t, pc) ==
    /\ tpc' = [tpc EXCEPT ![t] = pc]
    /\ UNCHANGED <<allocvars, shellvars, simvars>>

\* main: Accept a connection and Pthread_create a thread for it; the
\* request it will read names uri
Accept(t, uri) ==
    /\ tpc[t] = "idle"
    /\ Goto(t, "serve")
    /\ turi' = [turi EXCEPT ![t] = uri]
    /\ cache_entry' = [cache_entry EXCEPT ![t] = NoEntry]
    /\ UNCHANGED <<mutex, holder, cache>>

\* serve: the request line cannot be read or parsed
ServeFails(t) ==
    /\ tpc[t] = "serve"
    /\ Goto(t, "Close")
    /\ UNCHANGED <<mutex, holder, cache, turi, cache_entry>>

\* serve: the call read_entry(uri), made without P(&mutex)
CallReadEntry(t) ==
    /\ tpc[t] = "serve"
    /\ Goto(t, "read_entry")
    /\ UNCHANGED <<mutex, holder, cache, turi, cache_entry>>

\* read_entry: the entry cached for uri, or null
read_entry(c, uri) == IF uri \in c THEN uri ELSE NoEntry

\* serve: read_entry returns, and serve branches on its result
ReadEntryReturns(t) ==
    /\ tpc[t] = "read_entry"
    /\ LET e == read_entry(cache, turi[t])
       IN  /\ cache_entry' = [cache_entry EXCEPT ![t] = e]
           /\ Goto(t, IF e # NoEntry THEN "serve_cache" ELSE "serve_request")
    /\ UNCHANGED <<mutex, holder, cache, turi>>

\* serve_cache: rio_writen of cache_entry->response to the client
ServeCache(t) ==
    /\ tpc[t] = "serve_cache"
    /\ Goto(t, "Close")
    /\ UNCHANGED <<mutex, holder, cache, turi, cache_entry>>

\* serve_request: the origin server cannot be reached or answers badly
ServeRequestFails(t) ==
    /\ tpc[t] = "serve_request"
    /\ Goto(t, "Close")
    /\ UNCHANGED <<mutex, holder, cache, turi, cache_entry>>

\* serve_request: the response was forwarded and create_entry made an entry
ServeRequest(t) ==
    /\ tpc[t] = "serve_request"
    /\ Goto(t, "P")
    /\ UNCHANGED <<mutex, holder, cache, turi, cache_entry>>

\* P(&mutex)
P(t) ==
    /\ tpc[t] = "P"
    /\ mutex > 0
    /\ mutex' = mutex - 1
    /\ holder' = t
    /\ Goto(t, "put_new_entry")
    /\ UNCHANGED <<cache, turi, cache_entry>>

\* put_new_entry: the entry of uri joins the cache
put_new_entry(c, uri) == c \cup {uri}

PutNewEntry(t) ==
    /\ tpc[t] = "put_new_entry"
    /\ cache' = put_new_entry(cache, turi[t])
    /\ Goto(t, "V")
    /\ UNCHANGED <<mutex, holder, turi, cache_entry>>

\* V(&mutex)
V(t) ==
    /\ tpc[t] = "V"
    /\ mutex' = mutex + 1
    /\ holder' = NoThread
    /\ Goto(t, "Close")
    /\ UNCHANGED <<cache, turi, cache_entry>>

\* thread: Close(connfd) and return
CloseConn(t) ==
    /\ tpc[t] = "Close"
    /\ Goto(t, "idle")
    /\ UNCHANGED <<mutex, holder, cache, turi, cache_entry>>

NextProxy ==
    \/ \E t \in Threads, uri \in Uris : Accept(t, uri)
    \/ \E t \in Threads : ServeFails(t)
    \/ \E t \in Threads : CallReadEntry(t)
    \/ \E t \in Threads : ReadEntryReturns(t)
    \/ \E t \in Threads : ServeCache(t)
    \/ \E t \in Threads : ServeRequestFails(t)
    \/ \E t \in Threads : ServeRequest(t)
    \/ \E t \in Threads : P(t)
    \/ \E t \in Threads : PutNewEntry(t)
    \/ \E t \in Threads : V(t)
    \/ \E t \in Threads : CloseConn(t)

SpecProxy == InitProxy /\ [][NextProxy]_vars

\* the places at which a thread reads or writes the shared cache
CacheAccess == {"read_entry", "serve_cache", "put_new_entry"}

\* C36: a request thread that is inside read_entry, is sending the response
\* of a cached entry, or is inside put_new_entry holds the semaphore, and no
\* thread is inside read_entry or sending a cached response while another
\* thread is inside put_new_entry.
C36_CacheAccessUnderMutex ==
    /\ \A t \in Threads : tpc[t] \in CacheAccess => holder = t
    /\ \A t, u \in Threads :
          (t # u /\ tpc[t] = "put_new_entry")
              => tpc[u] \notin {"read_entry", "serve_cache"}

(*********************** src/shell_simulator.c *****************************)
\* The parent is at one place of main -> eval / builtin_command: "read"
\* (main waits for a command line), "fork" (signals blocked, before Fork),
\* "add_job" (after Fork, before add_job), "wait" / "fg_wait" (the test of
\* the wait loop of eval / of the fg builtin), "suspended" / "fg_suspended"
\* (inside Sigsuspend), "unblock" / "fg_unblock" (before the mask is
\* restored).  A child is "none" (not forked), "running", "stopping"
\* (stopped, the stop not yet reported by waitpid), "stopped", "zombie"
\* (terminated, not yet reaped) or "gone" (reaped).  A handler runs on the
\* parent's stack: while hnd is not "none" the parent takes no step, and
\* the handlers block every signal, so they do not nest.

InitShell == AllocatorUnused /\ ProxyStart /\ ShellStart /\ SimStart

\* a step of the shell leaves the other programs alone
ShellOnly == UNCHANGED <<allocvars, proxyvars, simvars>>

\* the set eval and builtin_command block
EvalMask == {SIGINT, SIGTSTP, SIGCHLD}

\* the job list helpers; a job is named by the process id of its child, and
\* 0 stands for "no such job"
job_from_pid(js, pid) == IF pid \in DOMAIN js /\ js[pid] # "none" THEN pid ELSE 0
fg_job(js) ==
    IF \E c \in DOMAIN js : js[c] = "FG"
    THEN CHOOSE c \in DOMAIN js : js[c] = "FG"
    ELSE 0
add_job(js, pid, state) == [js EXCEPT ![pid] = state]
delete_job(js, jobId) == IF jobId = 0 THEN js ELSE [js EXCEPT ![jobId] = "none"]
job_set_state(js, jobId, state) ==
    IF jobId = 0 THEN js ELSE [js EXCEPT ![jobId] = state]

\* inside Sigsuspend(&prev) the mask is prev; elsewhere it is what
\* Sigprocmask left
Suspended == {"suspended", "fg_suspended"}
SigMask == IF sh_pc \in Suspended THEN prev_mask ELSE blocked
\* the kernel may run the handler of sig now
Deliverable(sig) == hnd = "none" /\ sig \in pending /\ sig \notin SigMask
\* Sigsuspend returns once a handler has run
Resume(pc) ==
    IF pc = "suspended" THEN "wait"
    ELSE IF pc = "fg_suspended" THEN "fg_wait"
    ELSE pc

\* Kill(-pid, SIGCONT): a stopped child runs again
sigcont(pr, pid) ==
    IF pr[pid] \in {"stopping", "stopped"} THEN [pr EXCEPT ![pid] = "running"] ELSE pr
\* the parent is sent SIGCHLD when a child changes state
Notify(pr) == IF pr # proc THEN {SIGCHLD} ELSE {}

\* eval with the signals left unblocked before Fork
EvalBlock_unblocked(kind) ==
    /\ sh_pc = "read" /\ hnd = "none"
    /\ \E c \in Pids : proc[c] = "none"
    /\ parse_result' = kind
    /\ prev_mask' = blocked
    /\ sh_pc' = "fork"
    /\ UNCHANGED <<processId, blocked, pending, hnd, h_pid, proc, jobs, waitpidNeeded>>
    /\ ShellOnly

\* eval of a command that is not a builtin, to run in the foreground
\* (kind "FG") or in the background (kind "BG"): parseline, builtin_command
\* returns 0, Sigprocmask(SIG_BLOCK, &mask, &prev)
EvalBlock(kind) ==
    /\ sh_pc = "read" /\ hnd = "none"
    /\ \E c \in Pids : proc[c] = "none"
    /\ parse_result' = kind
    /\ prev_mask' = blocked
    /\ blocked' = blocked \cup EvalMask
    /\ sh_pc' = "fork"
    /\ UNCHANGED <<processId, pending, hnd, h_pid, proc, jobs, waitpidNeeded>>
    /\ ShellOnly

\* eval: Fork; the child restores the mask and runs the program
Fork ==
    /\ sh_pc = "fork" /\ hnd = "none"
    /\ LET c == CHOOSE c \in Pids : proc[c] = "none" /\ \A d \in Pids : proc[d] = "none" => c <= d
       IN  /\ processId' = c
           /\ proc' = [proc EXCEPT ![c] = "running"]
    /\ sh_pc' = "add_job"
    /\ UNCHANGED <<parse_result, prev_mask, blocked, pending, hnd, h_pid, jobs, waitpidNeeded>>
    /\ ShellOnly

\* eval, in the parent: the flag is cleared for a foreground job, and
\* add_job records the child
AddJob ==
    /\ sh_pc = "add_job" /\ hnd = "none"
    /\ waitpidNeeded' = IF parse_result = "FG" THEN 0 ELSE waitpidNeeded
    /\ jobs' = add_job(jobs, processId, parse_result)
    /\ sh_pc' = IF parse_result = "FG" THEN "wait" ELSE "unblock"
    /\ UNCHANGED <<parse_result, processId, prev_mask, blocked, pending, hnd, h_pid, proc>>
    /\ ShellOnly

\* while (!waitpidNeeded) Sigsuspend(&prev): the test, and the entry into
\* Sigsuspend when the flag is clear
WaitTest(at, susp, out) ==
    /\ sh_pc = at /\ hnd = "none"
    /\ sh_pc' = IF waitpidNeeded = 0 THEN susp ELSE out
    /\ UNCHANGED <<parse_result, processId, prev_mask, blocked, pending, hnd, h_pid,
                   proc, jobs, waitpidNeeded>>
    /\ ShellOnly

EvalWait == WaitTest("wait", "suspended", "unblock")
FgWait == WaitTest("fg_wait", "fg_suspended", "fg_unblock")

\* Sigprocmask(SIG_SETMASK, &prev, NULL), and back to main's loop
Unblock(at) ==
    /\ sh_pc = at /\ hnd = "none"
    /\ blocked' = prev_mask
    /\ sh_pc' = "read"
    /\ UNCHANGED <<parse_result, processId, prev_mask, pending, hnd, h_pid,
                   proc, jobs, waitpidNeeded>>
    /\ ShellOnly

EvalUnblock == Unblock("unblock")
FgUnblock == Unblock("fg_unblock")

\* builtin_command, fg of the job of pid: the signals are blocked, the flag
\* is cleared, the job is continued and made the foreground job
BuiltinFg(pid) ==
    /\ sh_pc = "read" /\ hnd = "none"
    /\ job_from_pid(jobs, pid) # 0
    /\ prev_mask' = blocked
    /\ blocked' = blocked \cup EvalMask
    /\ processId' = pid
    /\ waitpidNeeded' = 0
    /\ proc' = sigcont(proc, pid)
    /\ pending' = pending \cup Notify(sigcont(proc, pid))
    /\ jobs' = job_set_state(jobs, job_from_pid(jobs, pid), "FG")
    /\ sh_pc' = "fg_wait"
    /\ UNCHANGED <<parse_result, hnd, h_pid>>
    /\ ShellOnly

\* builtin_command, bg of the job of pid: with the signals blocked the job
\* is continued and made a background job, then the mask is restored
BuiltinBg(pid) ==
    /\ sh_pc = "read" /\ hnd = "none"
    /\ job_from_pid(jobs, pid) # 0
    /\ proc' = sigcont(proc, pid)
    /\ pending' = pending \cup Notify(sigcont(proc, pid))
    /\ jobs' = job_set_state(jobs, job_from_pid(jobs, pid), "BG")
    /\ UNCHANGED <<sh_pc, parse_result, processId, prev_mask, blocked, hnd, h_pid,
                   waitpidNeeded>>
    /\ ShellOnly

\* a child terminates, by itself or by a signal
ChildExits(c) ==
    /\ proc[c] = "running"
    /\ proc' = [proc EXCEPT ![c] = "zombie"]
    /\ pending' = pending \cup {SIGCHLD}
    /\ UNCHANGED <<sh_pc, parse_result, processId, prev_mask, blocked, hnd, h_pid,
                   jobs, waitpidNeeded>>
    /\ ShellOnly

\* a child is stopped
ChildStops(c) ==
    /\ proc[c] = "running"
    /\ proc' = [proc EXCEPT ![c] = "stopping"]
    /\ pending' = pending \cup {SIGCHLD}
    /\ UNCHANGED <<sh_pc, parse_result, processId, prev_mask, blocked, hnd, h_pid,
                   jobs, waitpidNeeded>>
    /\ ShellOnly

\* the user types Ctrl-C (SIGINT) or Ctrl-Z (SIGTSTP)
Keyboard(sig) ==
    /\ sig \notin pending
    /\ pending' = pending \cup {sig}
    /\ UNCHANGED <<sh_pc, parse_result, processId, prev_mask, blocked, hnd, h_pid,
                   proc, jobs, waitpidNeeded>>
    /\ ShellOnly

\* what Kill(-pid, sig) may leave of the children: the child of pid ignores
\* sig, or is terminated (SIGINT) or stopped (SIGTSTP) by it
KillOutcomes(pr, pid, sig) ==
    IF pid = 0 \/ pr[pid] # "running"
    THEN {pr}
    ELSE {pr, [pr EXCEPT ![pid] = IF sig = SIGINT THEN "zombie" ELSE "stopping"]}

\* sigint_handler and sigtstp_handler: the signal goes to the foreground
\* job, if there is one
ForwardHandler(sig) ==
    /\ Deliverable(sig)
    /\ \E pr \in KillOutcomes(proc, fg_job(jobs), sig) :
          /\ proc' = pr
          /\ pending' = (pending \ {sig}) \cup Notify(pr)
    /\ sh_pc' = Resume(sh_pc)
    /\ UNCHANGED <<parse_result, processId, prev_mask, blocked, hnd, h_pid,
                   jobs, waitpidNeeded>>
    /\ ShellOnly

SigintHandler == ForwardHandler(SIGINT)
SigtstpHandler == ForwardHandler(SIGTSTP)

\* the children waitpid(-1, &status, WNOHANG | WUNTRACED) may return
Waitable(pr) == {c \in Pids : pr[c] \in {"zombie", "stopping"}}

\* sigchld_handler is entered and blocks every signal
SigchldEnter ==
    /\ Deliverable(SIGCHLD)
    /\ pending' = pending \ {SIGCHLD}
    /\ hnd' = "sigchld"
    /\ h_pid' = 0
    /\ UNCHANGED <<sh_pc, parse_result, processId, prev_mask, blocked, proc, jobs,
                   waitpidNeeded>>
    /\ ShellOnly

\* sigchld_handler sets the flag on every child it reaps
handler_flag_always(js, jobId, flag) == 1

\* sigchld_handler: the flag is set when the reaped child's job is the
\* foreground job
handler_flag(js, jobId, flag) == IF fg_job(js) = jobId THEN 1 ELSE flag

\* sigchld_handler, one turn of its loop: waitpid returns child c
SigchldReap(c) ==
    /\ hnd = "sigchld"
    /\ c \in Waitable(proc)
    /\ h_pid' = c
    /\ LET jobId == job_from_pid(jobs, c)
       IN  /\ waitpidNeeded' = handler_flag(jobs, jobId, waitpidNeeded)
           /\ IF proc[c] = "zombie"
              THEN /\ jobs' = delete_job(jobs, jobId)
                   /\ proc' = [proc EXCEPT ![c] = "gone"]
              ELSE /\ jobs' = job_set_state(jobs, jobId, "ST")
                   /\ proc' = [proc EXCEPT ![c] = "stopped"]
    /\ UNCHANGED <<sh_pc, parse_result, processId, prev_mask, blocked, pending, hnd>>
    /\ ShellOnly

\* sigchld_handler: waitpid finds no child, the mask is restored and the
\* handler returns
SigchldReturn ==
    /\ hnd = "sigchld"
    /\ Waitable(proc) = {}
    /\ hnd' = "none"
    /\ sh_pc' = Resume(sh_pc)
    /\ UNCHANGED <<parse_result, processId, prev_mask, blocked, pending, h_pid,
                   proc, jobs, waitpidNeeded>>
    /\ ShellOnly

NextShell ==
    \/ \E kind \in {"FG", "BG"} : EvalBlock(kind)
    \/ Fork
    \/ AddJob
    \/ EvalWait
    \/ EvalUnblock
    \/ \E pid \in Pids : BuiltinFg(pid)
    \/ FgWait
    \/ FgUnblock
    \/ \E pid \in Pids : BuiltinBg(pid)
    \/ \E c \in Pids : ChildExits(c)
    \/ \E c \in Pids : ChildStops(c)
    \/ \E sig \in {SIGINT, SIGTSTP} : Keyboard(sig)
    \/ SigintHandler
    \/ SigtstpHandler
    \/ SigchldEnter
    \/ \E c \in Pids : SigchldReap(c)
    \/ SigchldReturn

SpecShell == InitShell /\ [][NextShell]_vars

\* the handler's loop takes child c
HandlerProcesses(c) ==
    proc[c] \in {"zombie", "stopping"} /\ proc'[c] \in {"gone", "stopped"}

\* C37: from before Fork until add_job has recorded the child, SIGCHLD,
\* SIGINT and SIGTSTP are blocked in the parent and no handler runs, and in
\* every step in which sigchld_handler processes a child, the job of that
\* child is in the job list.
C37_BlockedUntilRecorded ==
    /\ [](sh_pc \in {"fork", "add_job"} => (EvalMask \subseteq SigMask /\ hnd = "none"))
    /\ [][\A c \in Pids : HandlerProcesses(c) => job_from_pid(jobs, c) # 0]_vars

\* the child terminated between Fork and add_job, and its SIGCHLD is held
\* pending
C37_Witness ==
    /\ sh_pc = "add_job"
    /\ proc[processId] = "zombie"
    /\ job_from_pid(jobs, processId) = 0
    /\ SIGCHLD \in pending

WaitPlaces == {"wait", "suspended", "fg_wait", "fg_suspended"}

\* C38: while a job is the foreground job the parent is in the wait loop
\* for that job, and the parent leaves the wait loop only with the flag set
\* and the job it waited for deleted (terminated) or marked stopped, which
\* only sigchld_handler does.
C38_ForegroundWait ==
    /\ [](\A c \in Pids : jobs[c] = "FG" => (sh_pc \in WaitPlaces /\ processId = c))
    /\ [][(sh_pc \in WaitPlaces /\ sh_pc' \notin WaitPlaces)
            => (waitpidNeeded = 1 /\ jobs[processId] \in {"none", "ST"})]_vars

\* inside Sigsuspend the handler has reaped a terminated child other than
\* the foreground job, which is still running, and the flag is still clear
C38_Witness ==
    /\ sh_pc \in Suspended
    /\ hnd = "sigchld"
    /\ h_pid # 0 /\ h_pid # processId
    /\ proc[h_pid] = "gone"
    /\ jobs[processId] = "FG"
    /\ proc[processId] = "running"
    /\ waitpidNeeded = 0

(*********************** src/cache_simulator.c *****************************)
\* unsigned long and long are AddrBits wide and int is TagBits wide; a
\* conversion to a signed type keeps the low bits (two's complement).  The
\* lines of a set are indexed from 0 as in the code.

\* the value of x as a signed integer of w bits
WrapSigned(x, w) ==
    LET m == x % 2^w
    IN  IF m >= 2^(w - 1) THEN m - 2^w ELSE m

\* the value a long takes when it is stored into the int field tag
ToInt(x) == WrapSigned(x, TagBits)

\* getSetIndex: bits b .. b+s-1 of the address (s >= 1; for s = 0 the
\* mask is shifted by the full width of its type)
getSetIndex(address, s, b) == (address \div 2^b) % 2^s

\* getTag: the bits of the address above the set index, as a long
getTag(address, s, b) ==
    WrapSigned((address \div 2^(s + b)) % 2^(AddrBits - s - b), AddrBits)

\* a line as initCache leaves it
EmptyLine == [validBit |-> 0, dirtyBit |-> 0, tag |-> -1, lruTimestamp |-> 0]

\* initCache: 2^s sets of e lines
initCache(s, e, b) ==
    [s |-> s, e |-> e, b |-> b,
     sets |-> [i \in 0..(2^s - 1) |-> [j \in 0..(e - 1) |-> EmptyLine]]]

\* the cache geometries of the runs: -s, -E, -b
SimS == {1}
SimE == {1, 2, 3}
SimB == {1}

\* the tags of the traces: two that fit the tag field, the one whose low
\* TagBits bits are all ones, and one that differs from a small tag only
\* above the tag field
SimTags == {1, 2, 2^TagBits - 1, 2^TagBits + 1}

\* the address with the given tag and set index
AddressOf(tag, setIndex, s, b) == tag * 2^(s + b) + setIndex * 2^b

InitSim ==
    /\ AllocatorUnused /\ ProxyStart /\ ShellStart
    /\ myCache \in {initCache(s, e, b) : s \in SimS, e \in SimE, b \in SimB}
    /\ hits = 0
    /\ misses = 0
    /\ evictions = 0
    /\ dirtyBlocksInCache = 0
    /\ dirtyBlocksEvicted = 0
    /\ operationCounter = 0

\* updateCache, first loop: the first line that holds the tag or whose tag
\* field is -1, or e when the loop ends without a return
RECURSIVE first_usable(_, _, _, _)
first_usable(lines, i, e, tag) ==
    IF i >= e THEN e
    ELSE IF lines[i].validBit = 1 /\ lines[i].tag = tag THEN i
    ELSE IF lines[i].tag = -1 THEN i
    ELSE first_usable(lines, i + 1, e, tag)

\* updateCache, second loop: the line with the smallest time stamp below
\* leastVisitedLine
RECURSIVE locate_lru(_, _, _, _, _)
locate_lru(lines, i, e, leastVisitedLine, lruLine) ==
    IF i >= e THEN [leastVisitedLine |-> leastVisitedLine, lruLine |-> lruLine]
    ELSE IF lines[i].lruTimestamp < leastVisitedLine
         THEN locate_lru(lines, i + 1, e, lines[i].lruTimestamp, i)
         ELSE locate_lru(lines, i + 1, e, leastVisitedLine, lruLine)

\* the line updateCache evicts: the first one when no time stamp is below
\* the previous value of the counter
victim(lines, e, counter) ==
    LET r == locate_lru(lines, 0, e, counter - 1, -1)
    IN  IF r.leastVisitedLine = counter - 1 THEN 0 ELSE r.lruLine

\* the counters and the set after updateCache
SimBecomes(setIndex, lines, h, m, ev, inCache, evicted) ==
    /\ myCache' = [myCache EXCEPT !.sets[setIndex] = lines]
    /\ hits' = hits + h
    /\ misses' = misses + m
    /\ evictions' = evictions + ev
    /\ dirtyBlocksInCache' = dirtyBlocksInCache + inCache
    /\ dirtyBlocksEvicted' = dirtyBlocksEvicted + evicted
    /\ UNCHANGED <<allocvars, proxyvars, shellvars>>

\* updateCache on a hit at line i
cache_hit(lines, i, accessType, counter, setIndex) ==
    LET d == accessType = "S" /\ lines[i].dirtyBit = 0
    IN  SimBecomes(setIndex,
                   [lines EXCEPT ![i].lruTimestamp = counter,
                                 ![i].dirtyBit = IF d THEN 1 ELSE @],
                   1, 0, 0, IF d THEN 1 ELSE 0, 0)

\* updateCache on a line whose tag field is -1
cache_fill(lines, i, accessType, tag, counter, setIndex) ==
    SimBecomes(setIndex,
               [lines EXCEPT ![i].validBit = 1,
                             ![i].tag = ToInt(tag),
                             ![i].lruTimestamp = counter,
                             ![i].dirtyBit = IF accessType = "S" THEN 1 ELSE @],
               0, 1, 0, IF accessType = "S" THEN 1 ELSE 0, 0)

\* updateCache on a miss with no usable line: line lruLine is evicted
cache_evict(lines, lruLine, accessType, tag, counter, setIndex) ==
    LET dirty == lines[lruLine].dirtyBit = 1
    IN  SimBecomes(setIndex,
                   [lines EXCEPT ![lruLine].validBit = 1,
                                 ![lruLine].tag = ToInt(tag),
                                 ![lruLine].lruTimestamp = counter,
                                 ![lruLine].dirtyBit = IF accessType = "L" THEN 0 ELSE 1],
                   0, 1, 1,
                   IF accessType = "L" /\ dirty THEN -1
                   ELSE IF accessType = "S" /\ ~dirty THEN 1 ELSE 0,
                   IF dirty THEN 1 ELSE 0)

\* updateCache
updateCache(accessType, setIndex, tag) ==
    LET counter == operationCounter + 1
        lines == myCache.sets[setIndex]
        i == first_usable(lines, 0, myCache.e, tag)
    IN  /\ operationCounter' = counter
        /\ IF i < myCache.e
           THEN IF lines[i].validBit = 1 /\ lines[i].tag = tag
                THEN cache_hit(lines, i, accessType, counter, setIndex)
                ELSE cache_fill(lines, i, accessType, tag, counter, setIndex)
           ELSE cache_evict(lines, victim(lines, myCache.e, counter),
                            accessType, tag, counter, setIndex)

\* handleRequests for one line "L address" or "S address" of the trace
HandleRequest(accessType, address) ==
    /\ operationCounter < MaxAccesses
    /\ updateCache(accessType,
                   getSetIndex(address, myCache.s, myCache.b),
                   getTag(address, myCache.s, myCache.b))

NextSim ==
    \E accessType \in {"L", "S"}, tag \in SimTags, setIndex \in 0..(2^myCache.s - 1) :
        HandleRequest(accessType, AddressOf(tag, setIndex, myCache.s, myCache.b))

SpecSim == InitSim /\ [][NextSim]_vars

\* the lines of the cache, as pairs of set index and line index
SimLines == {<<si, j>> : si \in DOMAIN myCache.sets, j \in 0..(myCache.e - 1)}

\* C39: in every access that misses in a set whose lines are all valid, the
\* line that receives the new block (the one stamped with the new value of
\* operationCounter) is one whose lruTimestamp was the smallest of the set.
C39_EvictsLeastRecent ==
    [][\A p \in SimLines :
          (/\ misses' = misses + 1
           /\ myCache'.sets[p[1]][p[2]].lruTimestamp = operationCounter'
           /\ \A k \in 0..(myCache.e - 1) : myCache.sets[p[1]][k].validBit = 1)
          => \A k \in 0..(myCache.e - 1) :
                myCache.sets[p[1]][p[2]].lruTimestamp
                    <= myCache.sets[p[1]][k].lruTimestamp]_vars

\* C40: dirtyBlocksInCache is the number of lines whose dirty bit is set.
C40_DirtyCounterExact ==
    dirtyBlocksInCache
        = Cardinality({p \in SimLines : myCache.sets[p[1]][p[2]].dirtyBit = 1})

====
